---- MODULE Spec2Model ----
(***************************************************************************)
(* Model of dua's streaming scanner (internal/scanner/streamer.go) and of  *)
(* the consumer that splices streamed snapshots into the live directory    *)
(* tree (ui Model.Update and its tree helpers).                            *)
(*                                                                         *)
(* Goroutines are processes with a program counter; a channel is a         *)
(* sequence with a capacity and a closed flag; a select is a disjunction   *)
(* of its ready cases.  A Go panic (close of a closed channel, send on a   *)
(* closed channel) ends the process: once panicked no action is enabled.   *)
(***************************************************************************)
EXTENDS Integers, Sequences, FiniteSets, TLC

\* ------------------------------------------------------------------ bounds

\* The scanned trees have at most MaxDirs directories (directory 1 is the root).
MaxDirs == 3
\* The wide tree has WideDirs directories: the root, its WideDirs - 2
\* subdirectories and one subdirectory of the first of them.
WideDirs == 5
\* Number of worker goroutines (maxWorkers = runtime.NumCPU() * 8).
NumWorkers == 2
\* Capacities of the four channels (100, 1000, 50 and 10 in the program).
WorkQueueCap == 1
WorkInputCap == 1
UpdateChanCap == 1
ErrorChanCap == 1
\* At most this many directories of the tree are unreadable.
MaxUnreadable == 1
\* Zero-value messages the consumer reads from a closed update channel.
MaxZeroMsgs == 1
\* Messages Model.Update handles in the runs of the handlers.
MaxMsgs == 5
\* Load commands issued on the same node.
NumLoaders == 3
\* Characters the search query may hold (the code sets no limit).
MaxQuery == 1
\* maxWorkers of ScanDirectoryLazy (runtime.NumCPU() * 2 in the program).
LazyLimit == 2

Dirs == 1..(IF MaxDirs > WideDirs THEN MaxDirs ELSE WideDirs)
Workers == 1..NumWorkers
Loaders == 1..NumLoaders
\* A nil pointer.
Nil == [ IsNil |-> TRUE ]

\* ------------------------------------------------------------------ paths

\* A path is the sequence of its elements: "." is <<".">>, "/" is <<"/">>,
\* "/r/a" is <<"/", "r", "a">>, "./r" is <<".", "r">>, "" is <<>>.
NotDot(x) == x # "."

\* filepath.Clean on these paths: "." elements are dropped, an empty result
\* is ".".
Clean(p) ==
  LET c == SelectSeq(p, NotDot) IN IF c = <<>> THEN <<".">> ELSE c

\* filepath.Join(p, name)
Join(p, name) == Clean(p \o <<name>>)

\* filepath.Dir(p): everything but the last element, cleaned; "/" is its own
\* parent.
Dir(p) == IF p = <<"/">> THEN p ELSE Clean(SubSeq(p, 1, Len(p) - 1))

\* The root paths the program is started with (-path flag, default ".").
RootPaths == { <<".">>, <<"/", "r">> }

\* ------------------------------------------------------------- filesystem

VARIABLES
  currentPath,    \* Model.currentPath: the root path given to StartStreaming
  fsCount,        \* the static tree: its directories are 1..fsCount
  fsParent,       \* the static tree: parent directory of each directory > 1
  fsUnreadable    \* directories os.ReadDir fails on

FsDirs == 1..fsCount

\* Entry name of directory d in its parent.
DirName(d) == <<"r", "a", "b", "c", "d", "e">>[d]

\* The files of directory d.  InfoOK is whether entry.Info() succeeds.
FilesOf(d) ==
  CASE d = 1 -> << [Name |-> "f1", Size |-> 100, InfoOK |-> TRUE],
                   [Name |-> "f2", Size |-> 50, InfoOK |-> TRUE] >>
    [] d = 2 -> << >>
    [] d = 3 -> << [Name |-> "g", Size |-> 7, InfoOK |-> TRUE],
                   [Name |-> "h", Size |-> 9, InfoOK |-> FALSE] >>
    [] OTHER -> << [Name |-> "k", Size |-> d, InfoOK |-> TRUE] >>

IsChildOf(d, c) == c > 1 /\ c <= fsCount /\ fsParent[c] = d

\* The subdirectories of d in listing order.
ChildrenOf(d) ==
  LET Pick(c) == IsChildOf(d, c) IN SelectSeq([i \in Dirs |-> i], Pick)

RECURSIVE PathOf(_)
PathOf(d) == IF d = 1 THEN currentPath ELSE Join(PathOf(fsParent[d]), DirName(d))

DirAt(p) == CHOOSE d \in FsDirs : PathOf(d) = p

\* Directories the scan can discover: every proper ancestor is readable.
RECURSIVE Reachable(_)
Reachable(d) ==
  d = 1 \/ (fsParent[d] \notin fsUnreadable /\ Reachable(fsParent[d]))

ReachableDirs == { d \in FsDirs : Reachable(d) }

\* --------------------------------------------------------------- DirInfo

Placeholder(p) ==
  [ Path |-> p, Size |-> 0, Files |-> << >>, Subdirs |-> << >>,
    IsLoaded |-> FALSE, IsLoading |-> FALSE, FileCount |-> 0, SubdirCount |-> 0 ]

RECURSIVE SumSizes(_)
SumSizes(s) == IF s = << >> THEN 0 ELSE Head(s).Size + SumSizes(Tail(s))

\* An entry.Info() that never fails.
HasInfo_Always(f) == TRUE

\* entry.Info() returned no error.
HasInfo(f) == f.InfoOK
FileInfoOf(f) == [ Name |-> f.Name, Size |-> f.Size ]

RECURSIVE ExactSize(_)
\* The bytes of the readable part of the subtree of directory d.
ExactSize(d) ==
  IF d \in fsUnreadable THEN 0
  ELSE LET files == SelectSeq(FilesOf(d), HasInfo)
           below == ChildrenOf(d)
           RECURSIVE Sum(_)
           Sum(i) == IF i > Len(below) THEN 0 ELSE ExactSize(below[i]) + Sum(i + 1)
       IN SumSizes(files) + Sum(1)

\* ------------------------------------------------------ StreamingScanner

VARIABLES
  workQueue,        \* chan string, bounded: the manager feeds it, workers drain it
  workQueueClosed,
  workInput,        \* chan string: queueWork sends here
  updateChan,       \* chan StreamingUpdate
  updateClosed,
  errorChan,        \* chan error (an error is modelled by the path it names)
  errorClosed,
  cancelled,        \* s.context is done
  activeJobs,       \* s.activeJobs
  queue,            \* manageUnboundedQueue's local slice
  mgrPc,            \* "run" | "done"
  wPc,              \* per worker: "idle" | "increment" | "scan" | "reportError"
                    \*   | "decrement" | "publish" | "enqueue" | "exited"
  wPath,            \* per worker: dirPath received from workQueue
  wUpdate,          \* per worker: the update scanDirectory returned, or Nil
  wIdx,             \* per worker: index of the next subdirectory to queue
  monPc,            \* monitorCompletion: "tick" | "sampleQueue" | "sampleJobs"
                    \*   | "sleep" | "confirmQueue" | "confirmJobs" | "send" | "done"
  monZero,          \* monitor: every depth read so far in this sample was zero
  stopPc,           \* Stop(): "idle" | "wait" | "closeWorkQueue" | "closeUpdate"
                    \*   | "closeError" | "returned"
  stopBy,           \* who called Stop(): "none" | "consumer" | "caller"
  panicked          \* a goroutine panicked: the process is gone

\* The value of a StreamingUpdate that is all zero (read from a closed channel).
ZeroUpdate ==
  [ Path |-> << >>, FileCount |-> 0, DirCount |-> 0, TotalSize |-> 0,
    DirInfo |-> Nil, IsComplete |-> FALSE ]

CompleteUpdate == [ ZeroUpdate EXCEPT !.IsComplete = TRUE ]

\* scanDirectory on a readable directory: the snapshot and its statistics.
ScanUpdate(p) ==
  LET d == DirAt(p)
      infos == SelectSeq(FilesOf(d), HasInfo)
      files == [ i \in 1..Len(infos) |-> FileInfoOf(infos[i]) ]
      kids == ChildrenOf(d)
      subdirs == [ i \in 1..Len(kids) |-> Placeholder(Join(p, DirName(kids[i]))) ]
      totalBytes == SumSizes(files)
  IN [ Path |-> p, FileCount |-> Len(files), DirCount |-> Len(subdirs),
       TotalSize |-> totalBytes,
       DirInfo |-> [ Path |-> p, Size |-> totalBytes, Files |-> files,
                     Subdirs |-> subdirs, IsLoaded |-> TRUE, IsLoading |-> FALSE,
                     FileCount |-> Len(files), SubdirCount |-> Len(subdirs) ],
       IsComplete |-> FALSE ]

\* Number of directory entries os.ReadDir returns for p.
EntryCount(p) == Len(FilesOf(DirAt(p))) + Len(ChildrenOf(DirAt(p)))

\* --------------------------------------------------------- consumer (ui)

VARIABLES
  rootDir,          \* Model.rootDir: the live tree
  directoryMap,     \* Model.directoryMap: path -> snapshot
  expanded,         \* Model.expanded: path -> bool
  isScanning,       \* Model.isScanning
  progressFiles,    \* Model.progressFiles
  progressDirs,     \* Model.progressDirs
  progressBytes,    \* Model.progressBytes
  errListeners,     \* listenForErrors commands waiting on the error channel
  zeroMsgs          \* zero-value updates read from the closed update channel

\* History of the run, read only by the properties.
VARIABLES
  recvCount,        \* per directory: times a worker received its path
  updCount,         \* per directory: updates published on the update channel
  errCount,         \* per directory: errors sent on the error channel
  enqCount,         \* per directory: times queueWork put its path on workInput
  fwdCount,         \* per directory: times the manager forwarded its path
  completeSent,     \* IsComplete updates published
  doneCount         \* per directory: updates integrated by the consumer

\* Model state read by the key and message handlers.
VARIABLES
  sortMode,         \* Model.sortMode: 0 SortByName, 1 SortByDate, 2 SortBySize, 3 SortByType
  searchMode,       \* Model.searchMode
  renameMode,       \* Model.renameMode
  renamePending,    \* a performRename command is running
  msgCount,         \* messages handled by Model.Update from the handler inputs
  lastOp            \* history: the last such message and the tree before it

\* Model state read and written by the cursor, search and deletion keys.
VARIABLES
  cursor,           \* Model.cursor
  searchQuery,      \* Model.searchQuery: the characters typed, in order
  deletionMode,     \* Model.deletionMode
  markedForDeletion,\* Model.markedForDeletion: the paths marked
  delPending        \* the performBulkDeletion commands whose BulkDeletionMsg
                    \*   has not been handled yet: the paths each one deletes

\* LoadDirectoryContents on one node of the lazily scanned tree.
VARIABLES
  loadNode,         \* the *DirInfo the load commands share
  loadPc,           \* per command: "idle" | "start" | "set" | "read" | "fill"
                    \*   | "skipped" | "loaded" | "failed" | "handled"
  loadSeen          \* per command: what its test of the flags found: "nothing"
                    \*   | "loaded" | "loading"

\* ScanDirectoryLazy: the calls of scanDirectoryParallel and their goroutines.
VARIABLES
  lzState,          \* per directory: "none" | "reading" | "collect" | "done" | "failed"
  lzChan,           \* per directory: its dirChan, the subdirectories not yet taken
  lzBusy,           \* per directory: subdirectories its goroutines are scanning
  lzAlive,          \* per directory: goroutines it started that have not returned
  lzSize            \* per directory: the Size its call returned

\* History: calls of close(s.workQueue).
VARIABLE wqCloses

vars ==
  << sortMode, searchMode, renameMode, renamePending, msgCount, lastOp,
     cursor, searchQuery, deletionMode, markedForDeletion, delPending,
     loadNode, loadPc, loadSeen, lzState, lzChan, lzBusy, lzAlive, lzSize,
     wqCloses,
     currentPath, fsCount, fsParent, fsUnreadable,
     workQueue, workQueueClosed, workInput, updateChan, updateClosed, errorChan,
     errorClosed, cancelled, activeJobs, queue, mgrPc, wPc, wPath, wUpdate, wIdx,
     monPc, monZero, stopPc, stopBy, panicked,
     rootDir, directoryMap, expanded, isScanning, progressFiles, progressDirs,
     progressBytes, errListeners, zeroMsgs,
     recvCount, updCount, errCount, enqCount, fwdCount, completeSent, doneCount >>

fsVars == << currentPath, fsCount, fsParent, fsUnreadable >>
cursorVars == << cursor, searchQuery, deletionMode, markedForDeletion, delPending >>
keyVars ==
  << sortMode, searchMode, renameMode, renamePending, msgCount, lastOp, cursorVars >>
loadVars == << loadNode, loadPc, loadSeen >>
lazyVars == << lzState, lzChan, lzBusy, lzAlive, lzSize >>
sideVars == << keyVars, loadVars, lazyVars >>
workerVars == << wPc, wPath, wUpdate, wIdx >>
monitorVars == << monPc, monZero >>
stopVars == << stopPc, stopBy >>
consumerVars ==
  << rootDir, directoryMap, expanded, isScanning, progressFiles, progressDirs,
     progressBytes, errListeners, zeroMsgs, doneCount >>

\* The trees of n directories: each directory but the root has a parent of
\* smaller number; at most MaxUnreadable directories are unreadable.
TreeShapes(n) == { f \in [ 2..n -> 1..n ] : \A d \in 2..n : f[d] < d }

TreesOf(n) ==
  { [ count |-> n, parent |-> f, unreadable |-> u, root |-> r ] :
      f \in TreeShapes(n),
      u \in { x \in SUBSET (1..n) : Cardinality(x) <= MaxUnreadable },
      r \in RootPaths }

\* Every tree of at most MaxDirs directories.
SmallTrees == UNION { TreesOf(n) : n \in 1..MaxDirs }

\* The wide tree: directories 2..WideDirs-1 lie under the root, the last
\* directory lies under directory 2, and the last subdirectory of the root is
\* unreadable.
WideTree ==
  [ count |-> WideDirs,
    parent |-> [ d \in 2..WideDirs |-> IF d = WideDirs THEN 2 ELSE 1 ],
    unreadable |-> { WideDirs - 1 }, root |-> << "/", "r" >> ]

NoCounts == [ d \in Dirs |-> 0 ]

\* NewStreamingModel's root node.
NewRoot(path) == [ Placeholder(path) EXCEPT !.IsLoading = TRUE ]

EmptyMap == [ x \in {} |-> Nil ]

\* The state after NewStreamingModel, NewStreamingScanner and StartStreaming on
\* tree t: every goroutine is started and the root path is on the input
\* channel; Init of the ui has armed one listener on each channel.
ScannerStart(t) ==
  /\ currentPath = t.root
  /\ fsCount = t.count
  /\ fsParent = t.parent
  /\ fsUnreadable = t.unreadable
  /\ workQueue = << >>
  /\ workQueueClosed = FALSE
  /\ workInput = << currentPath >>
  /\ updateChan = << >>
  /\ updateClosed = FALSE
  /\ errorChan = << >>
  /\ errorClosed = FALSE
  /\ cancelled = FALSE
  /\ activeJobs = 0
  /\ queue = << >>
  /\ mgrPc = "run"
  /\ wPc = [ w \in Workers |-> "idle" ]
  /\ wPath = [ w \in Workers |-> << >> ]
  /\ wUpdate = [ w \in Workers |-> Nil ]
  /\ wIdx = [ w \in Workers |-> 0 ]
  /\ monPc = "tick"
  /\ monZero = FALSE
  /\ stopPc = "idle"
  /\ stopBy = "none"
  /\ panicked = FALSE
  /\ rootDir = NewRoot(currentPath)
  /\ directoryMap = EmptyMap
  /\ expanded = EmptyMap
  /\ isScanning = TRUE
  /\ progressFiles = 0
  /\ progressDirs = 0
  /\ progressBytes = 0
  /\ errListeners = 1
  /\ zeroMsgs = 0
  /\ recvCount = NoCounts
  /\ updCount = NoCounts
  /\ errCount = NoCounts
  /\ enqCount = [ NoCounts EXCEPT ![1] = 1 ]
  /\ fwdCount = NoCounts
  /\ completeSent = 0
  /\ doneCount = NoCounts
  /\ wqCloses = 0

\* No message handled yet.
NoOp == [ kind |-> "none", path |-> << >>, before |-> Nil, drops |-> 0 ]

\* NewModel / NewStreamingModel: sortMode SortByName, no mode entered.
KeysStart ==
  /\ sortMode = 0
  /\ searchMode = FALSE
  /\ renameMode = FALSE
  /\ renamePending = FALSE
  /\ cursor = 0
  /\ searchQuery = << >>
  /\ deletionMode = FALSE
  /\ markedForDeletion = {}
  /\ delPending = << >>
  /\ msgCount = 0
  /\ lastOp = NoOp

\* No load command was issued.
LoadIdle ==
  /\ loadPc = [ t \in Loaders |-> "idle" ]
  /\ loadSeen = [ t \in Loaders |-> "nothing" ]

\* ScanDirectoryLazy was not called.
LazyIdle ==
  /\ lzState = [ d \in Dirs |-> "none" ]
  /\ lzChan = [ d \in Dirs |-> << >> ]
  /\ lzBusy = [ d \in Dirs |-> {} ]
  /\ lzAlive = [ d \in Dirs |-> 0 ]
  /\ lzSize = [ d \in Dirs |-> 0 ]

\* The program started in streaming mode on tree t.
StartState(t) ==
  /\ ScannerStart(t)
  /\ KeysStart
  /\ loadNode = Nil
  /\ LoadIdle
  /\ LazyIdle

Init == \E t \in SmallTrees : StartState(t)

\* The runs over an absolute root path, on the small trees and the wide tree.
InitPipeline ==
  \E t \in SmallTrees \cup { WideTree } : t.root = << "/", "r" >> /\ StartState(t)

\* ----------------------------------------------------------------- worker

Bump(f, d) == [ f EXCEPT ![d] = @ + 1 ]

\* worker: the outer select.  A path is received, or the channel is closed and
\* drained, or the context is done.
WorkerReceive(w) ==
  /\ ~panicked
  /\ wPc[w] = "idle"
  /\ \/ /\ workQueue # << >>
        /\ wPath' = [ wPath EXCEPT ![w] = Head(workQueue) ]
        /\ workQueue' = Tail(workQueue)
        /\ recvCount' = Bump(recvCount, DirAt(Head(workQueue)))
        /\ wPc' = [ wPc EXCEPT ![w] = "increment" ]
     \/ /\ workQueue = << >>
        /\ workQueueClosed
        /\ wPc' = [ wPc EXCEPT ![w] = "exited" ]
        /\ UNCHANGED << wPath, workQueue, recvCount >>
     \/ /\ cancelled
        /\ wPc' = [ wPc EXCEPT ![w] = "exited" ]
        /\ UNCHANGED << wPath, workQueue, recvCount >>
  /\ UNCHANGED << fsVars, sideVars, wqCloses, workQueueClosed, workInput, updateChan, updateClosed,
                  errorChan, errorClosed, cancelled, activeJobs, queue, mgrPc,
                  wUpdate, wIdx, monitorVars, stopVars, panicked, consumerVars,
                  updCount, errCount, enqCount, fwdCount, completeSent >>

\* A counter that counts every job twice.
JobsAfterIncrement_Twice(n) == n + 2

\* The counter after incrementActiveJobs.
JobsAfterIncrement(n) == n + 1

\* incrementActiveJobs
WorkerIncrement(w) ==
  /\ ~panicked
  /\ wPc[w] = "increment"
  /\ activeJobs' = JobsAfterIncrement(activeJobs)
  /\ wPc' = [ wPc EXCEPT ![w] = "scan" ]
  /\ UNCHANGED << fsVars, sideVars, wqCloses, workQueue, workQueueClosed, workInput, updateChan,
                  updateClosed, errorChan, errorClosed, cancelled, queue, mgrPc,
                  wPath, wUpdate, wIdx, monitorVars, stopVars, panicked,
                  consumerVars, recvCount, updCount, errCount, enqCount, fwdCount,
                  completeSent >>

\* scanDirectory up to its return or its error report: os.ReadDir fails, or the
\* entry loop sees the context done and returns nil, or the update is built.
WorkerScan(w) ==
  /\ ~panicked
  /\ wPc[w] = "scan"
  /\ IF DirAt(wPath[w]) \in fsUnreadable
       THEN /\ wPc' = [ wPc EXCEPT ![w] = "reportError" ]
            /\ wUpdate' = [ wUpdate EXCEPT ![w] = Nil ]
       ELSE /\ wPc' = [ wPc EXCEPT ![w] = "decrement" ]
            /\ wUpdate' = [ wUpdate EXCEPT ![w] =
                 IF cancelled /\ EntryCount(wPath[w]) > 0 THEN Nil
                 ELSE ScanUpdate(wPath[w]) ]
  /\ UNCHANGED << fsVars, sideVars, wqCloses, workQueue, workQueueClosed, workInput, updateChan,
                  updateClosed, errorChan, errorClosed, cancelled, activeJobs,
                  queue, mgrPc, wPath, wIdx, monitorVars, stopVars, panicked,
                  consumerVars, recvCount, updCount, errCount, enqCount, fwdCount,
                  completeSent >>

\* scanDirectory's error select: the error is sent, or the context is done and
\* the error is dropped.  A send on the closed channel panics.
WorkerReportError(w) ==
  /\ ~panicked
  /\ wPc[w] = "reportError"
  /\ \/ /\ errorClosed \/ Len(errorChan) < ErrorChanCap
        /\ panicked' = errorClosed
        /\ errorChan' = IF errorClosed THEN errorChan ELSE Append(errorChan, wPath[w])
        /\ errCount' = IF errorClosed THEN errCount ELSE Bump(errCount, DirAt(wPath[w]))
     \/ /\ cancelled
        /\ UNCHANGED << panicked, errorChan, errCount >>
  /\ wPc' = [ wPc EXCEPT ![w] = "decrement" ]
  /\ UNCHANGED << fsVars, sideVars, wqCloses, workQueue, workQueueClosed, workInput, updateChan,
                  updateClosed, errorClosed, cancelled, activeJobs, queue, mgrPc,
                  wPath, wUpdate, wIdx, monitorVars, stopVars, consumerVars,
                  recvCount, updCount, enqCount, fwdCount, completeSent >>

\* The counter after decrementActiveJobs.
JobsAfterDecrement_Forgets(n) == n

JobsAfterDecrement(n) == n - 1

\* Where a worker goes after scanDirectory returned u: back to the select when
\* there is no update, on to publishing otherwise.
AfterScan_ExitsOnNil(u) == IF u = Nil THEN "exited" ELSE "publish"

AfterScan(u) == IF u = Nil THEN "idle" ELSE "publish"

\* decrementActiveJobs, then the test update != nil
WorkerDecrement(w) ==
  /\ ~panicked
  /\ wPc[w] = "decrement"
  /\ activeJobs' = JobsAfterDecrement(activeJobs)
  /\ wPc' = [ wPc EXCEPT ![w] = AfterScan(wUpdate[w]) ]
  /\ UNCHANGED << fsVars, sideVars, wqCloses, workQueue, workQueueClosed, workInput, updateChan,
                  updateClosed, errorChan, errorClosed, cancelled, queue, mgrPc,
                  wPath, wUpdate, wIdx, monitorVars, stopVars, panicked,
                  consumerVars, recvCount, updCount, errCount, enqCount, fwdCount,
                  completeSent >>

\* The publish select: the update is sent, or the context is done and the
\* worker returns.
WorkerPublish(w) ==
  /\ ~panicked
  /\ wPc[w] = "publish"
  /\ \/ /\ updateClosed \/ Len(updateChan) < UpdateChanCap
        /\ panicked' = updateClosed
        /\ updateChan' = IF updateClosed THEN updateChan
                         ELSE Append(updateChan, wUpdate[w])
        /\ updCount' = IF updateClosed THEN updCount
                       ELSE Bump(updCount, DirAt(wPath[w]))
        /\ wPc' = [ wPc EXCEPT ![w] =
             IF wUpdate[w].DirInfo.Subdirs = << >> THEN "idle" ELSE "enqueue" ]
        /\ wIdx' = [ wIdx EXCEPT ![w] = 1 ]
     \/ /\ cancelled
        /\ wPc' = [ wPc EXCEPT ![w] = "exited" ]
        /\ UNCHANGED << panicked, updateChan, updCount, wIdx >>
  /\ UNCHANGED << fsVars, sideVars, wqCloses, workQueue, workQueueClosed, workInput, updateClosed,
                  errorChan, errorClosed, cancelled, activeJobs, queue, mgrPc,
                  wPath, wUpdate, monitorVars, stopVars, consumerVars, recvCount,
                  errCount, enqCount, fwdCount, completeSent >>

\* One queueWork call of the loop over update.DirInfo.Subdirs: the path is
\* put on workInput, or the context is done and the path is dropped.
WorkerEnqueue(w) ==
  /\ ~panicked
  /\ wPc[w] = "enqueue"
  /\ LET subdir == wUpdate[w].DirInfo.Subdirs[wIdx[w]] IN
       \/ /\ Len(workInput) < WorkInputCap
          /\ workInput' = Append(workInput, subdir.Path)
          /\ enqCount' = Bump(enqCount, DirAt(subdir.Path))
       \/ /\ cancelled
          /\ UNCHANGED << workInput, enqCount >>
  /\ wIdx' = [ wIdx EXCEPT ![w] = @ + 1 ]
  /\ wPc' = [ wPc EXCEPT ![w] =
       IF wIdx[w] >= Len(wUpdate[w].DirInfo.Subdirs) THEN "idle" ELSE "enqueue" ]
  /\ UNCHANGED << fsVars, sideVars, wqCloses, workQueue, workQueueClosed, updateChan, updateClosed,
                  errorChan, errorClosed, cancelled, activeJobs, queue, mgrPc,
                  wPath, wUpdate, monitorVars, stopVars, panicked, consumerVars,
                  recvCount, updCount, errCount, fwdCount, completeSent >>

WorkerNext(w) ==
  \/ WorkerReceive(w)
  \/ WorkerIncrement(w)
  \/ WorkerScan(w)
  \/ WorkerReportError(w)
  \/ WorkerDecrement(w)
  \/ WorkerPublish(w)
  \/ WorkerEnqueue(w)

\* ---------------------------------------------------------- queue manager

\* Whether the manager's select has a receive case on workInput when its
\* local queue is q: it has one in both branches.
ManagerReceives_OnlyWhenEmpty(q) == q = << >>

ManagerReceives(q) == TRUE

\* The local queue after the head was sent to the workers.
QueueAfterSend_DropsNext(q) == IF Len(q) > 1 THEN Tail(Tail(q)) ELSE Tail(q)

\* A manager that leaves the path it has sent at the head of its queue.
QueueAfterSend_KeepsHead(q) == q

QueueAfterSend(q) == Tail(q)

\* A manager that puts the path it has received in front of its queue.
QueueAfterReceive_Pushes(q, item) == << item >> \o q

\* The local queue after item was received: queue = append(queue, item).
QueueAfterReceive(q, item) == Append(q, item)

\* manageUnboundedQueue: one pass of its loop.  With an empty queue the select
\* receives or sees the context done; otherwise it may also send the head to
\* the workers.  On cancellation it closes workQueue and returns.
ManagerStep ==
  /\ ~panicked
  /\ mgrPc = "run"
  /\ \/ /\ workInput # << >>
        /\ ManagerReceives(queue)
        /\ queue' = QueueAfterReceive(queue, Head(workInput))
        /\ workInput' = Tail(workInput)
        /\ UNCHANGED << workQueue, workQueueClosed, mgrPc, panicked, fwdCount,
                        wqCloses >>
     \/ /\ queue # << >>
        /\ workQueueClosed \/ Len(workQueue) < WorkQueueCap
        /\ panicked' = workQueueClosed
        /\ workQueue' = IF workQueueClosed THEN workQueue
                        ELSE Append(workQueue, Head(queue))
        /\ queue' = IF workQueueClosed THEN queue ELSE QueueAfterSend(queue)
        /\ fwdCount' = IF workQueueClosed THEN fwdCount
                       ELSE Bump(fwdCount, DirAt(Head(queue)))
        /\ UNCHANGED << workInput, workQueueClosed, mgrPc, wqCloses >>
     \/ /\ cancelled
        /\ panicked' = workQueueClosed
        /\ workQueueClosed' = TRUE
        /\ mgrPc' = IF workQueueClosed THEN mgrPc ELSE "done"
        /\ wqCloses' = wqCloses + 1
        /\ UNCHANGED << workQueue, workInput, queue, fwdCount >>
  /\ UNCHANGED << fsVars, sideVars, updateChan, updateClosed, errorChan, errorClosed,
                  cancelled, activeJobs, workerVars, monitorVars, stopVars,
                  consumerVars, recvCount, updCount, errCount, enqCount,
                  completeSent >>

\* ----------------------------------------------------- completion monitor

\* A monitor that keeps polling after it has published IsComplete.
MonitorAfterSend_KeepsPolling == "tick"

\* Where the monitor goes after it has published IsComplete: it returns.
MonitorAfterSend == "done"

MonitorUnchanged ==
  UNCHANGED << fsVars, sideVars, wqCloses, workQueue, workQueueClosed, workInput, updateClosed,
               errorChan, errorClosed, cancelled, activeJobs, queue, mgrPc,
               workerVars, stopVars, consumerVars, recvCount, updCount, errCount,
               enqCount, fwdCount >>

\* The outer select: a tick arrives and len(s.workInput) is read, or the
\* context is done and the monitor returns.
MonitorTick ==
  /\ ~panicked
  /\ monPc = "tick"
  /\ \/ /\ monZero' = (Len(workInput) = 0)
        /\ monPc' = "sampleQueue"
     \/ /\ cancelled
        /\ monPc' = "done"
        /\ UNCHANGED monZero
  /\ UNCHANGED << updateChan, completeSent, panicked >>
  /\ MonitorUnchanged

\* queueLen := len(s.workQueue)
MonitorSampleQueue ==
  /\ ~panicked
  /\ monPc = "sampleQueue"
  /\ monZero' = (monZero /\ Len(workQueue) = 0)
  /\ monPc' = "sampleJobs"
  /\ UNCHANGED << updateChan, completeSent, panicked >>
  /\ MonitorUnchanged

\* activeJobs := s.getActiveJobs(), then the test of the three samples
MonitorSampleJobs ==
  /\ ~panicked
  /\ monPc = "sampleJobs"
  /\ monZero' = (monZero /\ activeJobs = 0)
  /\ monPc' = IF monZero /\ activeJobs = 0 THEN "sleep" ELSE "tick"
  /\ UNCHANGED << updateChan, completeSent, panicked >>
  /\ MonitorUnchanged

\* After time.Sleep: len(s.workInput) == 0 &&
MonitorConfirmInput ==
  /\ ~panicked
  /\ monPc = "sleep"
  /\ monPc' = IF Len(workInput) = 0 THEN "confirmQueue" ELSE "tick"
  /\ UNCHANGED << monZero, updateChan, completeSent, panicked >>
  /\ MonitorUnchanged

\* len(s.workQueue) == 0 &&
MonitorConfirmQueue ==
  /\ ~panicked
  /\ monPc = "confirmQueue"
  /\ monPc' = IF Len(workQueue) = 0 THEN "confirmJobs" ELSE "tick"
  /\ UNCHANGED << monZero, updateChan, completeSent, panicked >>
  /\ MonitorUnchanged

\* A second sample that does not look at the active-job counter.
MonitorConfirmJobs_NoTest ==
  /\ ~panicked
  /\ monPc = "confirmJobs"
  /\ monPc' = "send"
  /\ UNCHANGED << monZero, updateChan, completeSent, panicked >>
  /\ MonitorUnchanged

\* s.getActiveJobs() == 0
MonitorConfirmJobs ==
  /\ ~panicked
  /\ monPc = "confirmJobs"
  /\ monPc' = IF activeJobs = 0 THEN "send" ELSE "tick"
  /\ UNCHANGED << monZero, updateChan, completeSent, panicked >>
  /\ MonitorUnchanged

\* The completion select: IsComplete is sent, or the context is done; the
\* monitor returns either way.
MonitorSend ==
  /\ ~panicked
  /\ monPc = "send"
  /\ \/ /\ updateClosed \/ Len(updateChan) < UpdateChanCap
        /\ panicked' = updateClosed
        /\ updateChan' = IF updateClosed THEN updateChan
                         ELSE Append(updateChan, CompleteUpdate)
        /\ completeSent' = IF updateClosed THEN completeSent ELSE completeSent + 1
        /\ monPc' = MonitorAfterSend
     \/ /\ cancelled
        /\ monPc' = "done"
        /\ UNCHANGED << updateChan, completeSent, panicked >>
  /\ UNCHANGED monZero
  /\ MonitorUnchanged

MonitorNext ==
  \/ MonitorTick
  \/ MonitorSampleQueue
  \/ MonitorSampleJobs
  \/ MonitorConfirmInput
  \/ MonitorConfirmQueue
  \/ MonitorConfirmJobs
  \/ MonitorSend

\* -------------------------------------------------------------------- Stop

StopUnchanged ==
  UNCHANGED << fsVars, sideVars, workQueue, workInput, updateChan, errorChan, activeJobs,
               queue, mgrPc, workerVars, monitorVars, consumerVars, recvCount,
               updCount, errCount, enqCount, fwdCount, completeSent >>

\* A Wait() that returns as soon as one worker has exited.
AllWorkersExited_OneIsEnough == \E w \in Workers : wPc[w] = "exited"

\* s.workerGroup.Wait() can return: every worker has called Done.
AllWorkersExited == \A w \in Workers : wPc[w] = "exited"

\* Stop() called by the pipeline's owner at some point of the scan: s.cancel()
StopCall ==
  /\ ~panicked
  /\ stopPc = "idle"
  /\ cancelled' = TRUE
  /\ stopPc' = "wait"
  /\ stopBy' = "caller"
  /\ UNCHANGED << workQueueClosed, updateClosed, errorClosed, panicked, wqCloses >>
  /\ StopUnchanged

\* s.workerGroup.Wait() returns
StopWait ==
  /\ ~panicked
  /\ stopPc = "wait"
  /\ AllWorkersExited
  /\ stopPc' = "closeWorkQueue"
  /\ UNCHANGED << cancelled, stopBy, workQueueClosed, updateClosed, errorClosed,
                  panicked, wqCloses >>
  /\ StopUnchanged

\* close(s.workQueue)
StopCloseWorkQueue ==
  /\ ~panicked
  /\ stopPc = "closeWorkQueue"
  /\ panicked' = workQueueClosed
  /\ workQueueClosed' = TRUE
  /\ stopPc' = IF workQueueClosed THEN stopPc ELSE "closeUpdate"
  /\ wqCloses' = wqCloses + 1
  /\ UNCHANGED << cancelled, stopBy, updateClosed, errorClosed >>
  /\ StopUnchanged

\* close(s.updateChan)
StopCloseUpdate ==
  /\ ~panicked
  /\ stopPc = "closeUpdate"
  /\ updateClosed' = TRUE
  /\ stopPc' = "closeError"
  /\ UNCHANGED << cancelled, stopBy, workQueueClosed, errorClosed, panicked,
                  wqCloses >>
  /\ StopUnchanged

\* close(s.errorChan), and Stop returns
StopCloseError ==
  /\ ~panicked
  /\ stopPc = "closeError"
  /\ errorClosed' = TRUE
  /\ stopPc' = "returned"
  /\ UNCHANGED << cancelled, stopBy, workQueueClosed, updateClosed, panicked,
                  wqCloses >>
  /\ StopUnchanged

StopNext ==
  \/ StopWait
  \/ StopCloseWorkQueue
  \/ StopCloseUpdate
  \/ StopCloseError

\* ------------------------------------------------------------ tree helpers

\* A node of the tree is named by the indices leading to it from the root;
\* NotFound stands for findDirectoryInTree's nil.
NotFound == << 0 >>

RECURSIVE findDirectoryInTree(_, _), FindInSubdirs(_, _, _)
\* Depth first, the first node whose Path is targetPath.
findDirectoryInTree(dir, targetPath) ==
  IF dir.Path = targetPath THEN << >>
  ELSE FindInSubdirs(dir.Subdirs, 1, targetPath)

FindInSubdirs(subdirs, i, targetPath) ==
  IF i > Len(subdirs) THEN NotFound
  ELSE LET found == findDirectoryInTree(subdirs[i], targetPath)
       IN IF found # NotFound THEN << i >> \o found
          ELSE FindInSubdirs(subdirs, i + 1, targetPath)

RECURSIVE NodeAt(_, _)
NodeAt(dir, idx) ==
  IF idx = << >> THEN dir ELSE NodeAt(dir.Subdirs[Head(idx)], Tail(idx))

RECURSIVE ReplaceAt(_, _, _)
ReplaceAt(dir, idx, node) ==
  IF idx = << >> THEN node
  ELSE [ dir EXCEPT !.Subdirs[Head(idx)] = ReplaceAt(@, Tail(idx), node) ]

\* The index of the first subdirectory of dir whose Path is p, or 0.
RECURSIVE SubdirIndex(_, _, _)
SubdirIndex(subdirs, i, p) ==
  IF i > Len(subdirs) THEN 0
  ELSE IF subdirs[i].Path = p THEN i
  ELSE SubdirIndex(subdirs, i + 1, p)

\* The loop test of updateParentSizesFromChild and updateParentSizes.
StopsAt(path) == path = << "/" >> \/ path = << "." >>

RECURSIVE updateParentSizesFromChild(_, _, _)
\* Adds childSize to the node at parentPath and to each node found for a
\* path above it, until the path is "/" or ".".
updateParentSizesFromChild(root, parentPath, childSize) ==
  IF StopsAt(parentPath) THEN root
  ELSE LET at == findDirectoryInTree(root, parentPath)
           next == IF at = NotFound THEN root
                   ELSE ReplaceAt(root, at,
                          [ NodeAt(root, at) EXCEPT !.Size = @ + childSize ])
       IN updateParentSizesFromChild(next, Dir(parentPath), childSize)

\* An integration that adds the snapshot's size to the ancestors even when the
\* parent holds no placeholder for it.
integrateDirectoryIntoTree_AddsAnyway(root, dirInfo) ==
  LET parentPath == Dir(dirInfo.Path)
      at == findDirectoryInTree(root, parentPath)
      i == IF at = NotFound THEN 0
           ELSE SubdirIndex(NodeAt(root, at).Subdirs, 1, dirInfo.Path)
      placed == IF i = 0 THEN root ELSE ReplaceAt(root, at \o << i >>, dirInfo)
  IN updateParentSizesFromChild(placed, parentPath, dirInfo.Size)

\* The tree after integrateDirectoryIntoTree(dirInfo): the subdirectory of the
\* parent that carries dirInfo's path is replaced by dirInfo and its size is
\* added up the parent chain; without a parent or an entry the tree is left
\* as it is.
integrateDirectoryIntoTree(root, dirInfo) ==
  LET parentPath == Dir(dirInfo.Path)
      at == findDirectoryInTree(root, parentPath)
      i == IF at = NotFound THEN 0
           ELSE SubdirIndex(NodeAt(root, at).Subdirs, 1, dirInfo.Path)
  IN IF i = 0 THEN root
     ELSE updateParentSizesFromChild(ReplaceAt(root, at \o << i >>, dirInfo),
                                     parentPath, dirInfo.Size)

\* A handler that treats the root's update like any other: the root node is
\* never replaced.
TreeAfterUpdate_NoRootCase(root, update) ==
  IF update.IsComplete \/ update.DirInfo = Nil THEN root
  ELSE integrateDirectoryIntoTree(root, update.DirInfo)

\* The tree after Model.Update has handled a StreamingUpdateMsg carrying
\* update: the root is replaced when the update is the root's, any other
\* snapshot is integrated; IsComplete and an update without DirInfo leave the
\* tree alone.
TreeAfterUpdate(root, update) ==
  IF update.IsComplete \/ update.DirInfo = Nil THEN root
  ELSE IF update.Path = currentPath THEN update.DirInfo
  ELSE integrateDirectoryIntoTree(root, update.DirInfo)

\* ---------------------------------------------------------------- consumer

\* m[k] = v
MapPut(m, k, v) == [ x \in DOMAIN m \cup { k } |-> IF x = k THEN v ELSE m[x] ]

\* Model.Update on a StreamingUpdateMsg holds the event loop until Stop()
\* has returned.
ConsumerInStop == stopBy = "consumer" /\ stopPc # "returned"

\* A listenForUpdates command receives an update (the zero value once the
\* channel is closed and drained) and Model.Update handles the
\* StreamingUpdateMsg: IsComplete ends the scan and calls Stop(); any other
\* update is counted and spliced into the tree.  Update re-arms one listener
\* on each channel.
ConsumerUpdate ==
  /\ ~panicked
  /\ ~ConsumerInStop
  /\ \/ /\ updateChan # << >>
        /\ UNCHANGED zeroMsgs
     \/ /\ updateChan = << >>
        /\ updateClosed
        /\ zeroMsgs < MaxZeroMsgs
        /\ zeroMsgs' = zeroMsgs + 1
  /\ LET update == IF updateChan # << >> THEN Head(updateChan) ELSE ZeroUpdate
         callStop == update.IsComplete /\ stopPc = "idle"
         integrate == ~update.IsComplete /\ update.DirInfo # Nil
     IN /\ updateChan' = IF updateChan # << >> THEN Tail(updateChan) ELSE updateChan
        /\ isScanning' = IF update.IsComplete THEN FALSE ELSE isScanning
        /\ cancelled' = (cancelled \/ callStop)
        /\ stopPc' = IF callStop THEN "wait" ELSE stopPc
        /\ stopBy' = IF callStop THEN "consumer" ELSE stopBy
        /\ progressFiles' = IF update.IsComplete THEN progressFiles
                            ELSE progressFiles + update.FileCount
        /\ progressDirs' = IF update.IsComplete THEN progressDirs
                           ELSE progressDirs + update.DirCount
        /\ progressBytes' = IF update.IsComplete THEN progressBytes
                            ELSE progressBytes + update.TotalSize
        /\ directoryMap' = IF integrate
                           THEN MapPut(directoryMap, update.DirInfo.Path, update.DirInfo)
                           ELSE directoryMap
        /\ expanded' = IF integrate /\ update.Path = currentPath
                       THEN MapPut(expanded, update.Path, TRUE)
                       ELSE expanded
        /\ rootDir' = TreeAfterUpdate(rootDir, update)
        /\ doneCount' = IF integrate THEN Bump(doneCount, DirAt(update.Path))
                        ELSE doneCount
  /\ errListeners' = errListeners + 1
  /\ UNCHANGED << fsVars, sideVars, wqCloses, workQueue, workQueueClosed, workInput, updateClosed,
                  errorChan, errorClosed, activeJobs, queue, mgrPc, workerVars,
                  monitorVars, panicked, recvCount, updCount, errCount, enqCount,
                  fwdCount, completeSent >>

\* A listenForErrors command receives an error (nil once the channel is
\* closed); Model.Update has no case for StreamErrorMsg and re-arms nothing.
ConsumerError ==
  /\ ~panicked
  /\ errListeners > 0
  /\ errorChan # << >> \/ errorClosed
  /\ errorChan' = IF errorChan # << >> THEN Tail(errorChan) ELSE errorChan
  /\ errListeners' = errListeners - 1
  /\ UNCHANGED << fsVars, sideVars, wqCloses, workQueue, workQueueClosed, workInput, updateChan,
                  updateClosed, errorClosed, cancelled, activeJobs, queue, mgrPc,
                  workerVars, monitorVars, stopVars, panicked, rootDir,
                  directoryMap, expanded, isScanning, progressFiles, progressDirs,
                  progressBytes, zeroMsgs, recvCount, updCount, errCount, enqCount,
                  fwdCount, completeSent, doneCount >>

ConsumerNext == ConsumerUpdate \/ ConsumerError

\* ------------------------------------------------------------ specifications

\* The program as it runs: Stop() is called by the consumer on IsComplete.
RunNext ==
  \/ \E w \in Workers : WorkerNext(w)
  \/ ManagerStep
  \/ MonitorNext
  \/ StopNext
  \/ ConsumerNext

\* The scanner as a library: Stop() may also be called at any point.
Next == RunNext \/ StopCall

Spec == Init /\ [][Next]_vars

RunSpec == Init /\ [][RunNext]_vars

\* A consumer of the two channels StartStreaming returns that only receives.
DrainUpdate ==
  /\ ~panicked
  /\ updateChan # << >>
  /\ updateChan' = Tail(updateChan)
  /\ UNCHANGED << fsVars, sideVars, wqCloses, workQueue, workQueueClosed, workInput, updateClosed,
                  errorChan, errorClosed, cancelled, activeJobs, queue, mgrPc,
                  workerVars, monitorVars, stopVars, panicked, consumerVars,
                  recvCount, updCount, errCount, enqCount, fwdCount, completeSent >>

DrainError ==
  /\ ~panicked
  /\ errorChan # << >>
  /\ errorChan' = Tail(errorChan)
  /\ UNCHANGED << fsVars, sideVars, wqCloses, workQueue, workQueueClosed, workInput, updateChan,
                  updateClosed, errorClosed, cancelled, activeJobs, queue, mgrPc,
                  workerVars, monitorVars, stopVars, panicked, consumerVars,
                  recvCount, updCount, errCount, enqCount, fwdCount, completeSent >>

\* The pipeline on its own, never cancelled, its channels drained by a consumer
\* that keeps receiving.
PipelineNext ==
  \/ \E w \in Workers : WorkerNext(w)
  \/ ManagerStep
  \/ MonitorNext
  \/ DrainUpdate
  \/ DrainError

\* Every goroutine that can take a step eventually takes one (the Go scheduler
\* runs every runnable goroutine), and the consumer keeps receiving.
PipelineFairness ==
  /\ \A w \in Workers : WF_vars(WorkerNext(w))
  /\ WF_vars(ManagerStep)
  /\ WF_vars(MonitorNext)
  /\ WF_vars(DrainUpdate)
  /\ WF_vars(DrainError)

FairPipelineSpec == InitPipeline /\ [][PipelineNext]_vars /\ PipelineFairness

\* ------------------------------------------------------- tree edits (ui)

\* filepath.Base(p)
Base(p) == p[Len(p)]

RemoveAt(seq, i) == SubSeq(seq, 1, i - 1) \o SubSeq(seq, i + 1, Len(seq))

\* The index of the first file of parent whose joined path is targetPath, or 0.
RECURSIVE FileIndex(_, _, _)
FileIndex(parent, i, targetPath) ==
  IF i > Len(parent.Files) THEN 0
  ELSE IF Join(parent.Path, parent.Files[i].Name) = targetPath THEN i
  ELSE FileIndex(parent, i + 1, targetPath)

RECURSIVE updateParentSizes(_, _)
\* Recomputes the size of the node at path and of each node found for a path
\* above it from its files and subdirectories, until the path is "/" or ".".
updateParentSizes(root, path) ==
  IF StopsAt(path) THEN root
  ELSE LET at == findDirectoryInTree(root, path)
           next == IF at = NotFound THEN root
                   ELSE LET dir == NodeAt(root, at)
                        IN ReplaceAt(root, at,
                             [ dir EXCEPT !.Size = SumSizes(dir.Files) + SumSizes(dir.Subdirs) ])
       IN updateParentSizes(next, Dir(path))

\* The tree after removeItemFromTree(targetPath).
removeItemFromTree(root, targetPath) ==
  LET parentPath == Dir(targetPath)
      at == findDirectoryInTree(root, parentPath)
  IN IF at = NotFound THEN root
     ELSE LET parent == NodeAt(root, at)
              f == FileIndex(parent, 1, targetPath)
              p1 == IF f = 0 THEN parent
                    ELSE [ parent EXCEPT !.Files = RemoveAt(@, f),
                                         !.Size = @ - parent.Files[f].Size ]
              d == SubdirIndex(p1.Subdirs, 1, targetPath)
              p2 == IF d = 0 THEN p1
                    ELSE [ p1 EXCEPT !.Subdirs = RemoveAt(@, d),
                                     !.Size = @ - p1.Subdirs[d].Size,
                                     !.SubdirCount = @ - 1 ]
          IN updateParentSizes(ReplaceAt(root, at, p2), parentPath)

\* The index of the first file of parent named name, or 0.
RECURSIVE FileNamed(_, _, _)
FileNamed(parent, i, name) ==
  IF i > Len(parent.Files) THEN 0
  ELSE IF parent.Files[i].Name = name THEN i
  ELSE FileNamed(parent, i + 1, name)

\* The index of the first subdirectory of parent whose base name is name, or 0.
RECURSIVE SubdirNamed(_, _, _)
SubdirNamed(parent, i, name) ==
  IF i > Len(parent.Subdirs) THEN 0
  ELSE IF Base(parent.Subdirs[i].Path) = name THEN i
  ELSE SubdirNamed(parent, i + 1, name)

\* What renameItemInTree(oldPath, newPath) does: "none", "file" or "subdir",
\* with the node of the parent and the index found.
RenameTarget(root, oldPath) ==
  LET at == findDirectoryInTree(root, Dir(oldPath))
  IN IF at = NotFound THEN [ what |-> "none", at |-> at, i |-> 0 ]
     ELSE LET parent == NodeAt(root, at)
              f == FileNamed(parent, 1, Base(oldPath))
              d == SubdirNamed(parent, 1, Base(oldPath))
          IN IF f # 0 THEN [ what |-> "file", at |-> at, i |-> f ]
             ELSE IF d # 0 THEN [ what |-> "subdir", at |-> at, i |-> d ]
             ELSE [ what |-> "none", at |-> at, i |-> 0 ]

\* The tree after renameItemInTree(oldPath, newPath).
renameItemInTree(root, oldPath, newPath) ==
  LET t == RenameTarget(root, oldPath)
  IN CASE t.what = "file" ->
            ReplaceAt(root, t.at,
              [ NodeAt(root, t.at) EXCEPT !.Files[t.i].Name = Base(newPath) ])
       [] t.what = "subdir" ->
            ReplaceAt(root, t.at,
              [ NodeAt(root, t.at) EXCEPT !.Subdirs[t.i].Path = newPath ])
       [] OTHER -> root

\* delete(m, k)
MapDelete(m, k) == [ x \in DOMAIN m \ { k } |-> m[x] ]

\* directoryMap after renameItemInTree: an entry under oldPath moves to newPath
\* and its snapshot takes the new path.
RenamedDirectoryMap(m, what, oldPath, newPath) ==
  IF what = "subdir" /\ oldPath \in DOMAIN m
  THEN MapPut(MapDelete(m, oldPath), newPath, [ m[oldPath] EXCEPT !.Path = newPath ])
  ELSE m

\* Whether renameItemInTree moves the expanded entry: if m.expanded[oldPath].
ExpandedMoves(m, oldPath) == oldPath \in DOMAIN m /\ m[oldPath]

\* expanded after renameItemInTree.
RenamedExpanded(m, what, oldPath, newPath) ==
  IF what = "subdir" /\ ExpandedMoves(m, oldPath)
  THEN MapPut(MapDelete(m, oldPath), newPath, TRUE)
  ELSE m

RECURSIVE ItemPaths(_)
\* The paths of the files and subdirectories at every depth below node.
ItemPaths(node) ==
  { Join(node.Path, node.Files[i].Name) : i \in 1..Len(node.Files) }
    \cup { node.Subdirs[i].Path : i \in 1..Len(node.Subdirs) }
    \cup UNION { ItemPaths(node.Subdirs[i]) : i \in 1..Len(node.Subdirs) }

\* ------------------------------------------------------ visible items (ui)

\* The characters of the names that occur in the model.
Chars(name) ==
  CASE name = "f1" -> << "f", "1" >>
    [] name = "f2" -> << "f", "2" >>
    [] OTHER -> << name >>

\* strings.ToLower on one character.
ToLower(c) == IF c = "G" THEN "g" ELSE c

\* The keys that are a single printable character.
Printable == { "s", "/", "r", "d", "g", "G", "q" }

RECURSIVE FuzzyScan(_, _, _, _)
\* fuzzyMatch's loop: i runs over target, queryIdx over query.
FuzzyScan(query, target, i, queryIdx) ==
  IF i > Len(target) \/ queryIdx > Len(query) THEN queryIdx
  ELSE FuzzyScan(query, target, i + 1,
         IF ToLower(target[i]) = ToLower(query[queryIdx]) THEN queryIdx + 1
         ELSE queryIdx)

\* fuzzyMatch(query, target): the characters of query occur in target in order.
fuzzyMatch(query, target) ==
  query = << >> \/ FuzzyScan(query, Chars(target), 1, 1) = Len(query) + 1

\* matchesSearch(filename)
matchesSearch(query, filename) == query = << >> \/ fuzzyMatch(query, filename)

RECURSIVE dirMatchesSearch(_, _)
\* dirMatchesSearch(dir): its name, one of its files or something below it
\* matches.
dirMatchesSearch(query, dir) ==
  \/ query = << >>
  \/ fuzzyMatch(query, Base(dir.Path))
  \/ \E i \in 1..Len(dir.Files) : fuzzyMatch(query, dir.Files[i].Name)
  \/ \E i \in 1..Len(dir.Subdirs) : dirMatchesSearch(query, dir.Subdirs[i])

\* m.expanded[path]
IsExpanded(m, path) == path \in DOMAIN m /\ m[path]

RECURSIVE countDirectoryItems(_, _, _, _)
\* countDirectoryItems(dir, depth): the lines dir and what is shown below it
\* take.
countDirectoryItems(query, exp, dir, depth) ==
  IF query # << >> /\ ~dirMatchesSearch(query, dir) THEN 0
  ELSE IF depth = 0 \/ IsExpanded(exp, dir.Path)
  THEN LET shown == { i \in 1..Len(dir.Files) : matchesSearch(query, dir.Files[i].Name) }
           RECURSIVE Below(_)
           Below(i) == IF i > Len(dir.Subdirs) THEN 0
                       ELSE countDirectoryItems(query, exp, dir.Subdirs[i], depth + 1)
                              + Below(i + 1)
       IN 1 + Cardinality(shown) + Below(1)
  ELSE 1

\* countVisibleItems()
countVisibleItems == countDirectoryItems(searchQuery, expanded, rootDir, 0)

\* The place of a name in the order of the lower-case names.
NameRank(name) ==
  LET order == << ".", "/", "a", "b", "c", "d", "e", "f1", "f2", "g", "h", "k", "r", "z" >>
  IN CHOOSE i \in 1..Len(order) : order[i] = name

\* sortFiles' less with sortAsc false: by size under SortBySize, else by name.
FileBefore(mode, f, g) ==
  IF mode = 2 THEN f.Size > g.Size ELSE NameRank(f.Name) > NameRank(g.Name)

\* sortDirs' less with sortAsc false.
DirBefore(mode, d, e) ==
  IF mode = 2 THEN d.Size > e.Size
  ELSE NameRank(Base(d.Path)) > NameRank(Base(e.Path))

\* The orders sort.Slice can leave seq in (it is not stable): no element
\* stands after one it must precede.
SortOrders(seq, mode, dirs) ==
  LET Before(a, b) == IF dirs THEN DirBefore(mode, a, b) ELSE FileBefore(mode, a, b)
  IN { [ i \in 1..Len(seq) |-> seq[f[i]] ] :
         f \in { g \in Permutations(1..Len(seq)) :
                   \A i, j \in 1..Len(seq) : i < j => ~Before(seq[g[j]], seq[g[i]]) } }

RECURSIVE ConcatChoices(_)
\* Every concatenation that takes one sequence of each set of sets, in order.
ConcatChoices(sets) ==
  IF sets = << >> THEN { << >> }
  ELSE { a \o b : a \in Head(sets), b \in ConcatChoices(Tail(sets)) }

RECURSIVE Listings(_, _, _, _, _)
\* The lines findItemAtIndex walks over for dir, top to bottom, in each order
\* the sorts allow: the directory, its matching files, its subdirectories.
Listings(query, exp, mode, dir, depth) ==
  IF query # << >> /\ ~dirMatchesSearch(query, dir) THEN { << >> }
  ELSE LET self == << [ path |-> dir.Path, isDir |-> TRUE ] >>
           Shown(f) == matchesSearch(query, f.Name)
           FileLines(fs) ==
             LET sh == SelectSeq(fs, Shown)
             IN [ i \in 1..Len(sh) |->
                    [ path |-> Join(dir.Path, sh[i].Name), isDir |-> FALSE ] ]
           DirLines(ds) ==
             ConcatChoices([ i \in 1..Len(ds) |->
                               Listings(query, exp, mode, ds[i], depth + 1) ])
       IN IF depth = 0 \/ IsExpanded(exp, dir.Path)
          THEN UNION { { self \o FileLines(fs) \o below : below \in DirLines(ds) } :
                         fs \in SortOrders(dir.Files, mode, FALSE),
                         ds \in SortOrders(dir.Subdirs, mode, TRUE) }
          ELSE { self }

\* getCurrentItem(): the paths the line at the cursor can be, none when the
\* cursor is on no line.
CurrentItems ==
  { l[cursor + 1].path :
      l \in { x \in Listings(searchQuery, expanded, sortMode, rootDir, 0) :
                cursor + 1 \in 1..Len(x) } }

\* ------------------------------------------------- message handlers (ui)

\* Everything of the scanner, which the handlers below do not touch.
pipelineVars ==
  << workQueue, workQueueClosed, workInput, updateChan, updateClosed, errorChan,
     errorClosed, cancelled, activeJobs, queue, mgrPc, workerVars, monitorVars,
     stopVars, panicked, recvCount, updCount, errCount, enqCount, fwdCount,
     completeSent, wqCloses >>

\* The name typed in rename mode.
NewName == "z"

\* A message is handled; drops counts the updates that left the tree as it was.
Handled(kind, path) ==
  /\ msgCount < MaxMsgs
  /\ msgCount' = msgCount + 1
  /\ lastOp' = [ kind |-> kind, path |-> path, before |-> rootDir,
                 drops |-> IF kind = "update" /\ rootDir' = rootDir
                           THEN lastOp.drops + 1 ELSE lastOp.drops ]

\* Model.Update on a StreamingUpdateMsg that carries the update of directory
\* d, whatever the tree holds at that moment.
HandleStreamingUpdate(d) ==
  /\ d \notin fsUnreadable
  /\ LET update == ScanUpdate(PathOf(d))
     IN /\ progressFiles' = progressFiles + update.FileCount
        /\ progressDirs' = progressDirs + update.DirCount
        /\ progressBytes' = progressBytes + update.TotalSize
        /\ directoryMap' = MapPut(directoryMap, update.DirInfo.Path, update.DirInfo)
        /\ expanded' = IF update.Path = currentPath
                       THEN MapPut(expanded, update.Path, TRUE)
                       ELSE expanded
        /\ rootDir' = TreeAfterUpdate(rootDir, update)
        /\ doneCount' = Bump(doneCount, d)
  /\ Handled("update", PathOf(d))
  /\ errListeners' = errListeners + 1
  /\ UNCHANGED << fsVars, pipelineVars, loadVars, lazyVars, isScanning, zeroMsgs,
                  sortMode, searchMode, renameMode, renamePending, cursorVars >>

\* The commands in flight without the first one that deletes just path.
RECURSIVE WithoutCommand(_, _)
WithoutCommand(cmds, path) ==
  IF cmds = << >> THEN cmds
  ELSE IF Head(cmds) = { path } THEN Tail(cmds)
  ELSE << Head(cmds) >> \o WithoutCommand(Tail(cmds), path)

\* Model.Update on a BulkDeletionMsg whose DeletedPaths is the one path given:
\* the item leaves the tree, deletion mode ends and the marks are dropped.
HandleBulkDeletionMsg(path) ==
  /\ rootDir' = removeItemFromTree(rootDir, path)
  /\ Handled("delete", path)
  /\ deletionMode' = FALSE
  /\ markedForDeletion' = {}
  /\ delPending' = WithoutCommand(delPending, path)
  /\ UNCHANGED << fsVars, pipelineVars, loadVars, lazyVars, directoryMap, expanded,
                  isScanning, progressFiles, progressDirs, progressBytes,
                  errListeners, zeroMsgs, doneCount, cursor, searchQuery,
                  sortMode, searchMode, renameMode, renamePending >>

\* Model.Update on the RenameMsg of a performRename command for oldPath.
HandleRenameMsg(oldPath, success) ==
  /\ renamePending
  /\ Handled("rename", oldPath)
  /\ LET newPath == Join(Dir(oldPath), NewName)
         what == RenameTarget(rootDir, oldPath).what
     IN IF success
        THEN /\ rootDir' = renameItemInTree(rootDir, oldPath, newPath)
             /\ directoryMap' = RenamedDirectoryMap(directoryMap, what, oldPath, newPath)
             /\ expanded' = RenamedExpanded(expanded, what, oldPath, newPath)
        ELSE UNCHANGED << rootDir, directoryMap, expanded >>
  /\ renameMode' = FALSE
  /\ renamePending' = FALSE
  /\ UNCHANGED << fsVars, pipelineVars, loadVars, lazyVars, isScanning,
                  progressFiles, progressDirs, progressBytes, errListeners,
                  zeroMsgs, doneCount, sortMode, searchMode, cursorVars >>

\* The sort mode after the key s.
NextSortMode(mode) == (mode + 1) % 4

\* The KeyMsg handler in search mode: enter keeps the filter, esc drops it,
\* a printable character is appended to the query; the cursor goes to the
\* top whenever the query changes.
SearchKey(key) ==
  /\ key \in Printable => Len(searchQuery) < MaxQuery
  /\ searchMode' = (key \notin { "enter", "esc" })
  /\ searchQuery' = IF key = "esc" THEN << >>
                    ELSE IF key \in Printable THEN Append(searchQuery, key)
                    ELSE searchQuery
  /\ cursor' = IF key = "esc" \/ key \in Printable THEN 0 ELSE cursor
  /\ UNCHANGED << sortMode, renameMode, renamePending, deletionMode,
                  markedForDeletion, delPending >>

\* The KeyMsg handler in rename mode: enter starts performRename, esc leaves
\* the mode, anything else goes to the input.
RenameKey(key) ==
  /\ renameMode' = (key # "esc")
  /\ renamePending' = (renamePending \/ key = "enter")
  /\ UNCHANGED << sortMode, searchMode, cursorVars >>

\* The marks after esc in the key switch.
MarksAfterEsc_Keeps(marks) == marks

\* m.markedForDeletion = make(map[string]bool)
MarksAfterEsc(marks) == {}

\* The key d: in deletion mode with marks, performBulkDeletion is started on
\* the marked paths; out of deletion mode the mode is entered and the item at
\* the cursor, if there is one, is marked.
DeleteKey ==
  IF deletionMode
  THEN /\ delPending' = IF markedForDeletion # {}
                        THEN Append(delPending, markedForDeletion)
                        ELSE delPending
       /\ UNCHANGED << deletionMode, markedForDeletion >>
  ELSE /\ deletionMode' = TRUE
       /\ IF CurrentItems = {} THEN markedForDeletion' = {}
          ELSE \E path \in CurrentItems : markedForDeletion' = { path }
       /\ UNCHANGED delPending

\* The cursor after a key of the key switch.
CursorAfter(key) ==
  CASE key = "up" -> IF cursor > 0 THEN cursor - 1 ELSE cursor
    [] key = "down" -> IF cursor < countVisibleItems - 1 THEN cursor + 1 ELSE cursor
    [] key = "g" -> 0
    [] key = "G" -> countVisibleItems - 1
    [] key = "esc" -> IF searchQuery # << >> THEN 0 ELSE cursor
    [] OTHER -> cursor

\* The key switch, for the keys but right, left and enter.
NormalKey(key) ==
  /\ key # "enter"
  /\ sortMode' = IF key = "s" THEN NextSortMode(sortMode) ELSE sortMode
  /\ searchMode' = (key = "/")
  /\ renameMode' = (key = "r")
  /\ searchQuery' = IF key \in { "/", "esc" } THEN << >> ELSE searchQuery
  /\ cursor' = CursorAfter(key)
  /\ IF key = "d" THEN DeleteKey
     ELSE IF key = "esc"
     THEN /\ deletionMode' = FALSE
          /\ markedForDeletion' = MarksAfterEsc(markedForDeletion)
          /\ UNCHANGED delPending
     ELSE UNCHANGED << deletionMode, markedForDeletion, delPending >>
  /\ UNCHANGED renamePending

\* Model.Update on a KeyMsg: search mode takes the key first, then rename
\* mode, then the key switch.
HandleKey(key) ==
  /\ Handled("key", << key >>)
  /\ IF searchMode THEN SearchKey(key)
     ELSE IF renameMode THEN RenameKey(key)
     ELSE NormalKey(key)
  /\ UNCHANGED << fsVars, pipelineVars, loadVars, lazyVars, consumerVars >>

\* Model.Update on the keys right (value TRUE) and left (value FALSE) with the
\* cursor on the directory at path.
HandleExpandKey(path, value) ==
  /\ ~searchMode
  /\ ~renameMode
  /\ Handled("key", path)
  /\ expanded' = MapPut(expanded, path, value)
  /\ UNCHANGED << fsVars, pipelineVars, loadVars, lazyVars, rootDir, directoryMap,
                  isScanning, progressFiles, progressDirs, progressBytes,
                  errListeners, zeroMsgs, doneCount,
                  sortMode, searchMode, renameMode, renamePending, cursorVars >>

RECURSIVE DirPaths(_)
\* The paths of the subdirectories at every depth below node.
DirPaths(node) ==
  { node.Subdirs[i].Path : i \in 1..Len(node.Subdirs) }
    \cup UNION { DirPaths(node.Subdirs[i]) : i \in 1..Len(node.Subdirs) }

UiNext ==
  \/ \E d \in FsDirs : HandleStreamingUpdate(d)
  \/ \E path \in ItemPaths(rootDir) : HandleBulkDeletionMsg(path)
  \/ \E path \in ItemPaths(rootDir), success \in BOOLEAN : HandleRenameMsg(path, success)
  \/ \E key \in { "s", "/", "r", "enter", "esc" } : HandleKey(key)
  \/ \E path \in DirPaths(rootDir), value \in BOOLEAN : HandleExpandKey(path, value)

\* Model.Update fed messages in any order.
UiSpec == Init /\ [][UiNext]_vars

\* The keys of the cursor, the search filter and the deletion.
CursorKeys == { "d", "esc", "up", "down", "g", "G", "/", "r", "enter", "q" }

\* The directories among the paths the line at the cursor can be.
CurrentDirs == CurrentItems \cap ({ rootDir.Path } \cup DirPaths(rootDir))

\* Model.Update fed the updates of the scan, the cursor keys and the
\* BulkDeletionMsg of each deletion it has started.
KeyNext ==
  \/ \E d \in FsDirs : HandleStreamingUpdate(d)
  \/ \E key \in CursorKeys : HandleKey(key)
  \/ \E path \in CurrentDirs, value \in BOOLEAN : HandleExpandKey(path, value)
  \/ \E i \in 1..Len(delPending) : \E path \in delPending[i] : HandleBulkDeletionMsg(path)

KeySpec == Init /\ [][KeyNext]_vars

\* ------------------------------------------- LoadDirectoryContents (lazy ui)

\* The Size scanDirectoryParallel computes for directory d when it can read d.
LazySize(d) ==
  LET below == ChildrenOf(d)
      RECURSIVE Sum(_)
      Sum(i) == IF i > Len(below) THEN 0 ELSE ExactSize(below[i]) + Sum(i + 1)
  IN SumSizes(SelectSeq(FilesOf(d), HasInfo)) + Sum(1)

\* The node scanDirectoryParallel returns for directory d: sizes and counts,
\* nothing enumerated.
LazyNode(d) ==
  [ Path |-> PathOf(d), Size |-> LazySize(d), Files |-> << >>, Subdirs |-> << >>,
    IsLoaded |-> FALSE, IsLoading |-> FALSE,
    FileCount |-> Len(FilesOf(d)), SubdirCount |-> Len(ChildrenOf(d)) ]

\* The same test with the IsLoading half left out.
LoadSkips_IgnoresLoading(node) == node.IsLoaded

\* LoadDirectoryContents returns at once: dirInfo.IsLoaded || dirInfo.IsLoading.
LoadSkips(node) == node.IsLoaded \/ node.IsLoading

\* The orders in which the goroutines of LoadDirectoryContents can append the
\* subdirectories kids under the mutex.
AppendOrders(kids) ==
  { [ i \in 1..Len(kids) |-> kids[f[i]] ] : f \in Permutations(1..Len(kids)) }

\* The commands that have set IsLoading and not yet returned.
Loading == { l \in Loaders : loadPc[l] \in { "read", "fill" } }

LoadUnchanged ==
  UNCHANGED << fsVars, keyVars, lazyVars, pipelineVars, consumerVars >>

\* Model.Update on the key right over the node: startAsyncLoading tests the
\* flags and returns a loadDirectoryCmd, which runs later on its own goroutine.
LoadIssue(l) ==
  /\ loadPc[l] = "idle"
  /\ ~loadNode.IsLoaded /\ ~loadNode.IsLoading
  /\ loadPc' = [ loadPc EXCEPT ![l] = "start" ]
  /\ UNCHANGED << loadNode, loadSeen >>
  /\ LoadUnchanged

\* LoadDirectoryContents, the test of the flags.
LoadCheck(l) ==
  /\ loadPc[l] = "start"
  /\ IF LoadSkips(loadNode)
     THEN /\ loadPc' = [ loadPc EXCEPT ![l] = "skipped" ]
          /\ loadSeen' = [ loadSeen EXCEPT
                            ![l] = IF loadNode.IsLoaded THEN "loaded" ELSE "loading" ]
     ELSE /\ loadPc' = [ loadPc EXCEPT ![l] = "set" ]
          /\ UNCHANGED loadSeen
  /\ UNCHANGED loadNode
  /\ LoadUnchanged

\* dirInfo.IsLoading = true
LoadSet(l) ==
  /\ loadPc[l] = "set"
  /\ loadNode' = [ loadNode EXCEPT !.IsLoading = TRUE ]
  /\ loadPc' = [ loadPc EXCEPT ![l] = "read" ]
  /\ UNCHANGED loadSeen
  /\ LoadUnchanged

\* os.ReadDir: on an error the deferred function clears IsLoading and the
\* error is returned; otherwise Files and Subdirs are emptied.
LoadRead(l) ==
  /\ loadPc[l] = "read"
  /\ IF DirAt(loadNode.Path) \in fsUnreadable
     THEN /\ loadNode' = [ loadNode EXCEPT !.IsLoading = FALSE ]
          /\ loadPc' = [ loadPc EXCEPT ![l] = "failed" ]
     ELSE /\ loadNode' = [ loadNode EXCEPT !.Files = << >>, !.Subdirs = << >> ]
          /\ loadPc' = [ loadPc EXCEPT ![l] = "fill" ]
  /\ UNCHANGED loadSeen
  /\ LoadUnchanged

\* The files with readable metadata are appended, each subdirectory that
\* ScanDirectoryLazy can read is appended in the order its goroutine gets the
\* mutex, IsLoaded is set and the deferred function clears IsLoading.
LoadFill(l) ==
  /\ loadPc[l] = "fill"
  /\ LET d == DirAt(loadNode.Path)
         infos == SelectSeq(FilesOf(d), HasInfo)
         Readable(c) == c \notin fsUnreadable
         kids == SelectSeq(ChildrenOf(d), Readable)
     IN \E order \in AppendOrders(kids) :
          loadNode' =
            [ loadNode EXCEPT
                !.Files = [ i \in 1..Len(infos) |-> FileInfoOf(infos[i]) ],
                !.Subdirs = IF ChildrenOf(d) = << >> THEN loadNode.Subdirs
                            ELSE [ i \in 1..Len(order) |-> LazyNode(order[i]) ],
                !.IsLoaded = TRUE,
                !.IsLoading = FALSE ]
  /\ loadPc' = [ loadPc EXCEPT ![l] = "loaded" ]
  /\ UNCHANGED loadSeen
  /\ LoadUnchanged

\* Model.Update on the LoadingCompleteMsg of command l: Success is err == nil.
LoadComplete(l) ==
  /\ loadPc[l] \in { "skipped", "loaded", "failed" }
  /\ loadNode' = [ loadNode EXCEPT !.IsLoading = FALSE,
                                   !.IsLoaded = (loadPc[l] # "failed") \/ @ ]
  /\ loadPc' = [ loadPc EXCEPT ![l] = "handled" ]
  /\ UNCHANGED loadSeen
  /\ LoadUnchanged

LoadNext ==
  \E l \in Loaders :
    \/ LoadIssue(l)
    \/ LoadCheck(l)
    \/ LoadSet(l)
    \/ LoadRead(l)
    \/ LoadFill(l)
    \/ LoadComplete(l)

\* The lazy ui holds the node ScanDirectoryLazy returned for directory d of
\* tree t; a directory of fsUnreadable lost its permissions after that scan.
InitLoad ==
  \E t \in SmallTrees :
    /\ ScannerStart(t)
    /\ KeysStart
    /\ LazyIdle
    /\ LoadIdle
    /\ \E d \in 1..t.count : loadNode = LazyNode(d)

\* The load commands issued on one node, interleaved in any order.
LoadSpec == InitLoad /\ [][LoadNext]_vars

\* ------------------------------------------------------ ScanDirectoryLazy

\* cap(sem) or len(dirs), whichever is less: the goroutines one call starts.
LazyWorkers(n) == IF LazyLimit > n THEN n ELSE LazyLimit

\* Goroutines of the call on d that are at the head of their range loop.
LazyIdleWorkers(d) == lzAlive[d] - Cardinality(lzBusy[d])

LazyUnchanged ==
  UNCHANGED << fsVars, keyVars, loadVars, pipelineVars, consumerVars >>

\* scanDirectoryParallel(d) up to the start of its goroutines: os.ReadDir, the
\* sizes of the files, dirChan filled and closed, the goroutines started.
LazyRead(d) ==
  /\ lzState[d] = "reading"
  /\ IF d \in fsUnreadable
     THEN /\ lzState' = [ lzState EXCEPT ![d] = "failed" ]
          /\ UNCHANGED << lzChan, lzAlive, lzSize >>
     ELSE LET dirs == ChildrenOf(d)
          IN /\ lzSize' = [ lzSize EXCEPT
                              ![d] = SumSizes(SelectSeq(FilesOf(d), HasInfo)) ]
             /\ lzChan' = [ lzChan EXCEPT ![d] = dirs ]
             /\ lzAlive' = [ lzAlive EXCEPT ![d] = LazyWorkers(Len(dirs)) ]
             /\ lzState' = [ lzState EXCEPT
                               ![d] = IF dirs = << >> THEN "done" ELSE "collect" ]
  /\ UNCHANGED lzBusy
  /\ LazyUnchanged

\* A goroutine of the call on d receives subdirectory c from dirChan and
\* calls scanDirectoryParallel on it.
LazyTake(d, c) ==
  /\ LazyIdleWorkers(d) > 0
  /\ lzChan[d] # << >>
  /\ c = Head(lzChan[d])
  /\ lzChan' = [ lzChan EXCEPT ![d] = Tail(@) ]
  /\ lzBusy' = [ lzBusy EXCEPT ![d] = @ \cup { c } ]
  /\ lzState' = [ lzState EXCEPT ![c] = "reading" ]
  /\ UNCHANGED << lzAlive, lzSize >>
  /\ LazyUnchanged

\* A goroutine that reports 0 for every subdirectory.
SizeReported_Nothing(state, size) == 0

\* What the goroutine sends on sizeChan once the call on a subdirectory has
\* returned in the given state: subInfo.Size, or 0 after an error.
SizeReported(state, size) == IF state = "done" THEN size ELSE 0

\* The call on c has returned to the goroutine of d that made it: the
\* goroutine sends the size, or 0 after an error, on sizeChan (buffered for
\* every subdirectory), where the collecting loop adds it to totalSize.
LazyFinish(d, c) ==
  /\ c \in lzBusy[d]
  /\ lzState[c] \in { "done", "failed" }
  /\ lzBusy' = [ lzBusy EXCEPT ![d] = @ \ { c } ]
  /\ lzSize' = [ lzSize EXCEPT ![d] = @ + SizeReported(lzState[c], lzSize[c]) ]
  /\ UNCHANGED << lzState, lzChan, lzAlive >>
  /\ LazyUnchanged

\* A goroutine of the call on d finds dirChan closed and empty and returns.
LazyExit(d) ==
  /\ LazyIdleWorkers(d) > 0
  /\ lzChan[d] = << >>
  /\ lzAlive' = [ lzAlive EXCEPT ![d] = @ - 1 ]
  /\ UNCHANGED << lzState, lzChan, lzBusy, lzSize >>
  /\ LazyUnchanged

\* wg.Wait() is over, sizeChan is closed and drained: the call on d returns.
LazyCollect(d) ==
  /\ lzState[d] = "collect"
  /\ lzAlive[d] = 0
  /\ lzState' = [ lzState EXCEPT ![d] = "done" ]
  /\ UNCHANGED << lzChan, lzBusy, lzAlive, lzSize >>
  /\ LazyUnchanged

LazyNext ==
  \E d \in FsDirs :
    \/ LazyRead(d)
    \/ \E c \in FsDirs : LazyTake(d, c)
    \/ \E c \in FsDirs : LazyFinish(d, c)
    \/ LazyExit(d)
    \/ LazyCollect(d)

\* ScanDirectoryLazy was called on the root of tree t.
InitLazy ==
  \E t \in SmallTrees \cup { WideTree } :
    /\ ScannerStart(t)
    /\ KeysStart
    /\ loadNode = Nil
    /\ LoadIdle
    /\ lzState = [ d \in Dirs |-> IF d = 1 THEN "reading" ELSE "none" ]
    /\ lzChan = [ d \in Dirs |-> << >> ]
    /\ lzBusy = [ d \in Dirs |-> {} ]
    /\ lzAlive = [ d \in Dirs |-> 0 ]
    /\ lzSize = [ d \in Dirs |-> 0 ]

LazySpec == InitLazy /\ [][LazyNext]_vars

RECURSIVE ScanDirectoryFull(_)
\* ScanDirectoryFull on directory d: whether it returns an error, and the
\* Size of the node it returns otherwise.  Each file whose Info() succeeds
\* adds its size, each subdirectory whose scan succeeds adds its Size.
ScanDirectoryFull(d) ==
  IF d \in fsUnreadable THEN [ err |-> TRUE, Size |-> 0 ]
  ELSE LET files == FilesOf(d)
           dirs == ChildrenOf(d)
           RECURSIVE FileLoop(_)
           FileLoop(i) ==
             IF i > Len(files) THEN 0
             ELSE (IF files[i].InfoOK THEN files[i].Size ELSE 0) + FileLoop(i + 1)
           RECURSIVE DirLoop(_)
           DirLoop(i) ==
             IF i > Len(dirs) THEN 0
             ELSE LET sub == ScanDirectoryFull(dirs[i])
                  IN (IF sub.err THEN 0 ELSE sub.Size) + DirLoop(i + 1)
       IN [ err |-> FALSE, Size |-> FileLoop(1) + DirLoop(1) ]

\* -------------------------------------------- snapshots shared by pointer

\* A StreamingUpdate carries DirInfo as a pointer: the worker that published
\* it and the tree that received it hold the same Subdirs array.  The worker
\* ranges over the slice as it was at the start of its loop, so it keeps the
\* length and reads each cell when it comes to it; a cell the tree has
\* written since holds what the tree wrote.
Overlay(cells, subdirs) ==
  [ i \in 1..Len(cells) |-> IF i <= Len(subdirs) THEN subdirs[i] ELSE cells[i] ]

\* path is p or lies below p.
IsPrefix(p, path) == Len(p) <= Len(path) /\ SubSeq(path, 1, Len(p)) = p

\* The update worker w holds once the consumer's tree has become newRoot.
SharedUpdate(w, newRoot) ==
  IF wPc[w] # "enqueue" \/ doneCount[DirAt(wPath[w])] = 0 THEN wUpdate[w]
  ELSE LET at == findDirectoryInTree(newRoot, wPath[w])
       IN IF at = NotFound THEN wUpdate[w]
          ELSE [ wUpdate[w] EXCEPT
                   !.DirInfo.Subdirs = Overlay(@, NodeAt(newRoot, at).Subdirs) ]

\* The entry of directoryMap under p once the tree has become newRoot: the
\* root's entry is the root node itself, any other entry shares its array
\* with the node of the tree.
SharedEntry(p, newRoot) ==
  IF p = newRoot.Path THEN newRoot
  ELSE LET at == findDirectoryInTree(newRoot, p)
       IN IF at = NotFound THEN directoryMap[p]
          ELSE [ directoryMap[p] EXCEPT
                   !.Subdirs = Overlay(@, NodeAt(newRoot, at).Subdirs) ]

\* The user deletes the subdirectory at path while the scan runs:
\* performBulkDeletion removes it from the disk and Model.Update handles the
\* BulkDeletionMsg on the tree the workers' snapshots live in.
ShareDelete(path) ==
  /\ ~panicked
  /\ ~ConsumerInStop
  /\ isScanning
  /\ LET newRoot == removeItemFromTree(rootDir, path)
     IN /\ rootDir' = newRoot
        /\ wUpdate' = [ w \in Workers |-> SharedUpdate(w, newRoot) ]
        /\ directoryMap' = [ p \in DOMAIN directoryMap |-> SharedEntry(p, newRoot) ]
  /\ fsUnreadable' = fsUnreadable \cup { d \in FsDirs : IsPrefix(path, PathOf(d)) }
  /\ UNCHANGED << currentPath, fsCount, fsParent, sideVars, wqCloses, workQueue,
                  workQueueClosed, workInput, updateChan, updateClosed, errorChan,
                  errorClosed, cancelled, activeJobs, queue, mgrPc, wPc, wPath,
                  wIdx, monitorVars, stopVars, panicked, expanded, isScanning,
                  progressFiles, progressDirs, progressBytes, errListeners,
                  zeroMsgs, doneCount, recvCount, updCount, errCount, enqCount,
                  fwdCount, completeSent >>

ShareNext ==
  \/ RunNext
  \/ \E path \in DirPaths(rootDir) : ShareDelete(path)

\* The program as it runs, with a user who deletes directories during the scan.
ShareSpec == Init /\ [][ShareNext]_vars

\* ------------------------------------------- a scan of unreadable directories

\* A root whose subdirectories are all unreadable: more of them than the
\* error channel and the listeners of a scan of this tree can take.
DeniedTree ==
  [ count |-> WideDirs, parent |-> [ d \in 2..WideDirs |-> 1 ],
    unreadable |-> 2..WideDirs, root |-> << "/", "r" >> ]

InitDenied == StartState(DeniedTree)

\* The program with its own consumer on the tree of unreadable
\* subdirectories.
DeniedSpec == InitDenied /\ [][RunNext]_vars

\* ================================================================ properties

\* The size of the first node of the tree whose Path is p, or -1.
SizeAt(root, p) ==
  LET at == findDirectoryInTree(root, p)
  IN IF at = NotFound THEN -1 ELSE NodeAt(root, at).Size

RECURSIVE Ancestors(_)
\* The proper ancestors of directory d in the scanned tree.
Ancestors(d) == IF d = 1 THEN {} ELSE { fsParent[d] } \cup Ancestors(fsParent[d])

RECURSIVE SizesAddUp(_)
\* node and every node below it have size = files' sizes + subdirectories' sizes.
SizesAddUp(node) ==
  /\ node.Size = SumSizes(node.Files) + SumSizes(node.Subdirs)
  /\ \A i \in 1..Len(node.Subdirs) : SizesAddUp(node.Subdirs[i])

\* C1: IsComplete is published only after every directory the scan can reach
\* has had its update published or its read error sent.
C1_CompleteOnlyAfterAll ==
  completeSent > 0 =>
    \A d \in ReachableDirs : updCount[d] > 0 \/ errCount[d] > 0

\* C2: after the consumer has processed any sequence of streamed updates,
\* every node of the live tree has size = sum of its files' sizes + sum of its
\* subdirectories' sizes, for relative and absolute root paths alike.
C2_SizeInvariant == SizesAddUp(rootDir)

\* C3: processing the same non-complete update twice leaves the size of every
\* ancestor of its path as it was after processing it once.
C3_IntegrationIdempotent ==
  \A d \in FsDirs \ fsUnreadable :
    LET update == ScanUpdate(PathOf(d))
        once == TreeAfterUpdate(rootDir, update)
        twice == TreeAfterUpdate(once, update)
    IN \A a \in Ancestors(d) : SizeAt(twice, PathOf(a)) = SizeAt(once, PathOf(a))

\* Stop() has returned after every worker exited, with the update channel and
\* the error channel closed.
StopDone ==
  AllWorkersExited /\ stopPc = "returned" /\ updateClosed /\ errorClosed

\* C4: once Stop() is called every worker exits and Stop() returns having
\* closed the update channel and the error channel: a run in which Stop() was
\* called can come to rest only with Stop() returned and both channels closed.
C4_StopDrains == stopPc = "idle" \/ StopDone \/ ENABLED Next

\* C6: at most one IsComplete update is ever published.
C6_AtMostOneComplete == completeSent <= 1

\* C6 witness: the monitor has published IsComplete and returned.
C6_Witness == completeSent = 1 /\ monPc = "done"

\* C5: on every tree with finitely many reachable directories, with a consumer
\* that keeps receiving from both channels, a snapshot with IsComplete set is
\* eventually published; the pipeline holds no count of directories, only the
\* two channel lengths and the active-job counter it samples.
C5_EventuallyComplete == <>(completeSent > 0)

C5_Witness ==
  /\ completeSent > 0
  /\ fsCount = WideDirs
  /\ ~cancelled
  /\ \A d \in ReachableDirs : updCount[d] > 0 \/ errCount[d] > 0

\* The manager is at its select with a path waiting on the input channel.
ManagerAccepts == mgrPc = "run" /\ workInput # << >> /\ ManagerReceives(queue)

EnqueueBlocked(w) == wPc[w] = "enqueue" /\ Len(workInput) >= WorkInputCap

\* C7: without cancellation, a worker enqueueing the subdirectories it found
\* always gets past the enqueue: whenever the input channel is full the manager
\* is ready to take a path off it, however full the work channel is, so even
\* with every worker enqueueing at once no worker waits forever.
C7_EnqueueCompletes ==
  /\ [](\A w \in Workers : EnqueueBlocked(w) => ManagerAccepts)
  /\ []<>(\A w \in Workers : wPc[w] # "enqueue")

C7_Witness ==
  /\ \A w \in Workers : wPc[w] = "enqueue"
  /\ Len(workQueue) >= WorkQueueCap
  /\ ~cancelled

\* C8: without cancellation and with workers that keep receiving, every path
\* handed to queueWork is eventually forwarded to the work channel.
C8_EveryPathForwarded ==
  <>[](\A d \in Dirs : fwdCount[d] >= enqCount[d])

C8_Witness ==
  /\ Len(queue) >= 2
  /\ Len(workQueue) >= WorkQueueCap
  /\ ~cancelled

\* The scan of directory d has been taken by a worker and has returned.
ScanOver(d) ==
  /\ recvCount[d] > 0
  /\ \A w \in Workers :
       wPath[w] = PathOf(d) => wPc[w] \notin { "increment", "scan", "reportError" }

NothingBelowEnqueued(d) ==
  \A c \in FsDirs : IsChildOf(d, c) => enqCount[c] = 0

\* C9 as stated: once the scan of an unreadable directory has returned, exactly
\* one error naming it was sent, no update was published for it and none of its
\* subdirectories was enqueued.
C9_ExactlyOneError ==
  \A d \in fsUnreadable :
    ScanOver(d) => errCount[d] = 1 /\ updCount[d] = 0 /\ NothingBelowEnqueued(d)

\* A worker whose scan of an unreadable directory returned goes back to its
\* receive select.
BackToReceive(w) ==
  (wPc[w] = "decrement" /\ DirAt(wPath[w]) \in fsUnreadable /\ wPc'[w] # wPc[w])
    => wPc'[w] = "idle"

\* C9 (amended): for an unreadable directory at most one error naming it is
\* sent, and exactly one once its scan has returned unless cancellation was
\* signalled; no update is published for it, none of its subdirectories is
\* enqueued, and the worker goes back to its receive select.
C9_ErrorUnlessCancelled ==
  /\ [](\A d \in fsUnreadable :
         /\ errCount[d] <= 1
         /\ updCount[d] = 0
         /\ NothingBelowEnqueued(d)
         /\ (ScanOver(d) /\ ~cancelled) => errCount[d] = 1)
  /\ [][\A w \in Workers : BackToReceive(w)]_vars

\* C9 witness: an unreadable directory with a subdirectory was scanned without
\* cancellation, its error was sent and its worker is back at the select.
C9_Witness ==
  \E d \in fsUnreadable :
    /\ ScanOver(d)
    /\ ~cancelled
    /\ errCount[d] = 1
    /\ \E c \in FsDirs : IsChildOf(d, c)
    /\ \E w \in Workers : wPath[w] = PathOf(d) /\ wPc[w] = "idle"

\* C10: in a tree with one unreadable subdirectory, when the consumer has seen
\* IsComplete every readable directory outside the unreadable subtree has had
\* its update integrated and its size in the tree is exact.
C10_ReadablePortionExact ==
  (Cardinality(fsUnreadable) = 1 /\ 1 \notin fsUnreadable /\ ~isScanning) =>
    \A d \in ReachableDirs \ fsUnreadable :
      doneCount[d] > 0 /\ SizeAt(rootDir, PathOf(d)) = ExactSize(d)

\* C11: in a tree whose directories are all readable, once the consumer has
\* processed IsComplete the root node's size is the total size of the files of
\* the whole tree.
C11_RootSizeIsTotal ==
  (fsUnreadable = {} /\ ~isScanning) => rootDir.Size = ExactSize(1)

\* C17: after the consumer has processed IsComplete it receives nothing more
\* from the update channel and handles no further StreamingUpdateMsg.
C17_StopsListening == [][~isScanning => ~ConsumerUpdate]_vars

\* C20: close(s.workQueue) is called at most once over the life of a pipeline.
C20_ClosedAtMostOnce == wqCloses <= 1

\* The size of the file or subdirectory at path in the tree.
ItemSize(root, path) ==
  LET parent == NodeAt(root, findDirectoryInTree(root, Dir(path)))
      f == FileIndex(parent, 1, path)
  IN IF f # 0 THEN parent.Files[f].Size
     ELSE parent.Subdirs[SubdirIndex(parent.Subdirs, 1, path)].Size

RECURSIVE AncestorPaths(_)
\* The paths of the directories above path, up to the root path.
AncestorPaths(path) ==
  IF Dir(path) = currentPath \/ Dir(path) = path THEN { Dir(path) }
  ELSE { Dir(path) } \cup AncestorPaths(Dir(path))

\* The item at path hangs below the node that carries its parent path.
Attached(root, path) == findDirectoryInTree(root, Dir(path)) # NotFound
  /\ path \in ItemPaths(NodeAt(root, findDirectoryInTree(root, Dir(path))))

\* C12: removeItemFromTree(path), for a file or subdirectory present at any
\* depth, detaches it and reduces the size of its parent and of every ancestor
\* up to and including the root by the item's size.
C12_RemoveReducesAncestors ==
  \A path \in ItemPaths(rootDir) :
    Attached(rootDir, path) =>
      LET after == removeItemFromTree(rootDir, path)
      IN /\ path \notin ItemPaths(after)
         /\ \A a \in AncestorPaths(path) :
              SizeAt(after, a) = SizeAt(rootDir, a) - ItemSize(rootDir, path)

RECURSIVE SizeShape(_)
\* The sizes of node, of its files and of the nodes below it, without names.
SizeShape(node) ==
  << node.Size,
     [ i \in 1..Len(node.Files) |-> node.Files[i].Size ],
     [ i \in 1..Len(node.Subdirs) |-> SizeShape(node.Subdirs[i]) ] >>

\* C13: renameItemInTree(oldPath, newPath) with a new name leaves every size
\* unchanged and leaves no entry of directoryMap or expanded under oldPath.
C13_RenameMovesEntries ==
  \A oldPath \in ItemPaths(rootDir) :
    (Attached(rootDir, oldPath) /\ Base(oldPath) # NewName) =>
      LET newPath == Join(Dir(oldPath), NewName)
          what == RenameTarget(rootDir, oldPath).what
      IN /\ SizeShape(renameItemInTree(rootDir, oldPath, newPath)) = SizeShape(rootDir)
         /\ oldPath \notin DOMAIN RenamedDirectoryMap(directoryMap, what, oldPath, newPath)
         /\ oldPath \notin DOMAIN RenamedExpanded(expanded, what, oldPath, newPath)

\* The update for path finds no parent in the tree, or a parent without a
\* placeholder for path.
Orphan(root, path) ==
  /\ path # currentPath
  /\ LET at == findDirectoryInTree(root, Dir(path))
     IN \/ at = NotFound
        \/ \A i \in 1..Len(NodeAt(root, at).Subdirs) :
              NodeAt(root, at).Subdirs[i].Path # path

\* C16: a non-complete update whose parent is not in the tree, or whose parent
\* holds no placeholder for it, leaves the whole tree as it was, and the
\* handler keeps taking updates.
C16_OrphanDropped ==
  (lastOp.kind = "update" /\ Orphan(lastOp.before, lastOp.path)) =>
    rootDir = lastOp.before

\* C16 witness: an update of non-zero size whose parent is in the tree but
\* holds no placeholder for it was dropped, after another update had been
\* dropped and the root's update had been integrated.
C16_Witness ==
  /\ lastOp.kind = "update"
  /\ Orphan(lastOp.before, lastOp.path)
  /\ findDirectoryInTree(lastOp.before, Dir(lastOp.path)) # NotFound
  /\ ScanUpdate(lastOp.path).DirInfo.Size > 0
  /\ lastOp.drops >= 2
  /\ SizesAddUp(rootDir) /\ rootDir.Subdirs # << >>

\* The sort mode the documented cycle Name, Size, Date, Type gives after mode.
DocumentedNext(mode) ==
  CASE mode = 0 -> 2 [] mode = 2 -> 1 [] mode = 1 -> 3 [] OTHER -> 0

\* C19: outside search and rename mode the key s takes the sort mode through
\* Name, Size, Date, Type and back to Name.
C19_SortCycle ==
  [][(msgCount' # msgCount /\ lastOp'.kind = "key" /\ lastOp'.path = << "s" >>
        /\ ~searchMode /\ ~renameMode)
      => sortMode' = DocumentedNext(sortMode)]_vars

C15_OneLoaderAtATime == Cardinality(Loading) <= 1

RECURSIVE LazyRunning(_)
\* The directory-scan goroutines of the calls on directories 1..d that have
\* been started and have not returned.
LazyRunning(d) == IF d = 0 THEN 0 ELSE lzAlive[d] + LazyRunning(d - 1)

\* C18: during ScanDirectoryLazy at most maxWorkers directory-scan goroutines
\* run at the same time.
C18_GoroutinesBounded == LazyRunning(fsCount) <= LazyLimit

\* A send on the closed update channel or on the closed error channel: the
\* step of a worker or of the monitor that panics.
SendOnClosed ==
  /\ ~panicked
  /\ panicked'
  /\ \/ monPc = "send" /\ monPc' # monPc /\ updateClosed
     \/ \E w \in Workers : wPc[w] = "publish" /\ wPc'[w] # wPc[w] /\ updateClosed
     \/ \E w \in Workers : wPc[w] = "reportError" /\ wPc'[w] # wPc[w] /\ errorClosed

\* C21: no worker and no monitor attempts a send on the update channel or on
\* the error channel after Stop() has closed it.
C21_NoSendAfterClose == [][~SendOnClosed]_vars

C24_WorkersStopAtCancel ==
  [][cancelled => (recvCount' = recvCount /\ updCount' = updCount)]_vars

\* C25: once cancellation has been signalled the monitor publishes no
\* IsComplete update.
C25_NoCompleteAfterCancel == [][cancelled => completeSent' = completeSent]_vars

\* C26: once cancellation has been signalled the queue manager forwards no
\* further path to the work channel.
C26_ManagerStopsAtCancel == [][cancelled => fwdCount' = fwdCount]_vars

\* C28: while the queue manager holds a path in its buffer, the three depths
\* the monitor samples are not all zero.
C28_SampleSeesBuffer ==
  queue # << >> => ~(Len(workInput) = 0 /\ Len(workQueue) = 0 /\ activeJobs = 0)

\* The parent of every directory whose update was published, or processed by
\* the consumer, had its own update published, or processed, before.
ParentFirst ==
  \A d \in 2..fsCount :
    /\ updCount[d] > 0 => updCount[fsParent[d]] > 0
    /\ doneCount[d] > 0 => doneCount[fsParent[d]] > 0

\* The consumer processes the update of a directory below the root only when
\* the tree holds an entry with its path under the node of its parent.
PlaceholderFirst ==
  \A d \in 2..fsCount :
    doneCount'[d] > doneCount[d] => ~Orphan(rootDir, PathOf(d))

TwoZeroSamples ==
  /\ completeSent' # completeSent => monPc = "send"
  /\ (monPc' = "send" /\ monPc # "send") =>
       (monPc = "confirmJobs" /\ activeJobs = 0)
  /\ (monPc' = "confirmJobs" /\ monPc # "confirmJobs") =>
       (monPc = "confirmQueue" /\ Len(workQueue) = 0)
  /\ (monPc' = "confirmQueue" /\ monPc # "confirmQueue") =>
       (monPc = "sleep" /\ Len(workInput) = 0)
  /\ (monPc' = "sleep" /\ monPc # "sleep") =>
       (monPc = "sampleJobs" /\ monZero /\ activeJobs = 0)
  /\ (monPc' = "sampleJobs" /\ monPc # "sampleJobs") =>
       (monPc = "sampleQueue" /\ monZero' = (monZero /\ Len(workQueue) = 0))
  /\ (monPc' = "sampleQueue" /\ monPc # "sampleQueue") =>
       (monPc = "tick" /\ monZero' = (Len(workInput) = 0))

\* A read of the second sample that is not zero sends the monitor back to the
\* ticker with nothing published.
NonzeroReverts ==
  /\ (monPc = "sleep" /\ monPc' # monPc /\ Len(workInput) # 0) =>
       (monPc' = "tick" /\ completeSent' = completeSent)
  /\ (monPc = "confirmQueue" /\ monPc' # monPc /\ Len(workQueue) # 0) =>
       (monPc' = "tick" /\ completeSent' = completeSent)
  /\ (monPc = "confirmJobs" /\ monPc' # monPc /\ activeJobs # 0) =>
       (monPc' = "tick" /\ completeSent' = completeSent)

\* C27: the monitor publishes IsComplete only after a sample at a tick and a
\* sample after the delay have both found the input-channel depth, the work-
\* channel depth and the active-job count zero; a nonzero read in the second
\* sample returns it to waiting with nothing published.
C27_TwoSamples == [][TwoZeroSamples /\ NonzeroReverts]_vars

\* IsComplete was published after both samples, on a scan that did publish the
\* root's update.
C27_Witness ==
  /\ completeSent > 0
  /\ monZero
  /\ monPc = "done"
  /\ updCount[1] > 0
  /\ ~cancelled

\* No path is on its way to a worker and no worker is at work.
PipelineQuiet ==
  /\ workInput = << >>
  /\ queue = << >>
  /\ workQueue = << >>
  /\ \A w \in Workers : wPc[w] = "idle"

AtMostOnce ==
  \A d \in Dirs : recvCount[d] <= 1 /\ updCount[d] <= 1 /\ doneCount[d] <= 1

\* C29: each directory path is received by a worker at most once, at most one
\* update per path is published and at most one is spliced into the tree; in
\* a scan that was not cancelled, once no path is left anywhere every
\* directory that can be discovered has been received exactly once.
C29_EachPathOnce ==
  /\ AtMostOnce
  /\ (PipelineQuiet /\ ~cancelled) => \A d \in ReachableDirs : recvCount[d] = 1

\* A scan of a tree of MaxDirs directories that was not cancelled has come to
\* rest with every snapshot spliced into the tree.
C29_Witness ==
  /\ PipelineQuiet
  /\ ~cancelled
  /\ fsCount = MaxDirs
  /\ fsUnreadable = {}
  /\ \A d \in FsDirs : recvCount[d] = 1 /\ updCount[d] = 1 /\ doneCount[d] = 1

\* Each path a worker hands to queueWork is the path of the subdirectory at
\* that place in the snapshot as scanDirectory built it.
EnqueuesAsScanned ==
  \A w \in Workers :
    (wPc[w] = "enqueue" /\ wIdx'[w] = wIdx[w] + 1) =>
      wUpdate[w].DirInfo.Subdirs[wIdx[w]].Path
        = ScanUpdate(wPath[w]).DirInfo.Subdirs[wIdx[w]].Path

\* C30: the subdirectory paths a worker enqueues after publishing a snapshot
\* are the snapshot's subdirectories as scanned, whatever the consumer does
\* to the tree that holds the snapshot.
C30_SnapshotImmutable == [][EnqueuesAsScanned]_vars

\* C31: the update scanDirectory returns for a readable directory counts the
\* non-directory entries whose metadata was read (FileCount), the directory
\* entries (DirCount) and the bytes of those files (TotalSize); its snapshot
\* has Size = TotalSize, IsLoaded, and one placeholder (size 0, not loaded,
\* no children) per directory entry; entries without metadata are skipped.
C31_ScanIsExact ==
  \A w \in Workers :
    (wPc[w] = "decrement" /\ wUpdate[w] # Nil) =>
      LET u == wUpdate[w]
          d == DirAt(wPath[w])
          entries == FilesOf(d)
          good == { i \in 1..Len(entries) : entries[i].InfoOK }
          kids == { c \in FsDirs : IsChildOf(d, c) }
          RECURSIVE Bytes(_)
          Bytes(S) == IF S = {} THEN 0
                      ELSE LET i == CHOOSE x \in S : TRUE
                           IN entries[i].Size + Bytes(S \ { i })
      IN /\ u.Path = wPath[w]
         /\ ~u.IsComplete
         /\ u.FileCount = Cardinality(good)
         /\ u.DirCount = Cardinality(kids)
         /\ u.TotalSize = Bytes(good)
         /\ u.DirInfo.Path = wPath[w]
         /\ u.DirInfo.Size = u.TotalSize
         /\ u.DirInfo.IsLoaded
         /\ ~u.DirInfo.IsLoading
         /\ { [ Name |-> entries[i].Name, Size |-> entries[i].Size ] : i \in good }
              = { u.DirInfo.Files[i] : i \in 1..Len(u.DirInfo.Files) }
         /\ Len(u.DirInfo.Files) = Cardinality(good)
         /\ Len(u.DirInfo.Subdirs) = Cardinality(kids)
         /\ \A c \in kids :
              \E i \in 1..Len(u.DirInfo.Subdirs) :
                u.DirInfo.Subdirs[i].Path = PathOf(c)
         /\ \A i \in 1..Len(u.DirInfo.Subdirs) :
              LET s == u.DirInfo.Subdirs[i]
              IN /\ s.Size = 0
                 /\ ~s.IsLoaded
                 /\ ~s.IsLoading
                 /\ s.Files = << >>
                 /\ s.Subdirs = << >>
                 /\ s.FileCount = 0
                 /\ s.SubdirCount = 0

\* scanDirectory has just returned, to one worker, the update of a directory
\* one of whose files has no metadata; the update it returned earlier to
\* another worker is of a directory with subdirectories.
C31_Witness ==
  \E w, v \in Workers :
    /\ wPc[w] = "decrement" /\ wUpdate[w] # Nil
    /\ wUpdate[w].FileCount < Len(FilesOf(DirAt(wPath[w])))
    /\ v # w /\ wUpdate[v] # Nil
    /\ wUpdate[v].DirCount > 0

\* Command l's call of LoadDirectoryContents returns in this step.
LoadReturns(l) ==
  /\ loadPc[l] \in { "start", "read", "fill" }
  /\ loadPc'[l] \in { "skipped", "failed", "loaded" }

\* C32: whenever LoadDirectoryContents returns, the node's IsLoading is
\* false; a call that could not read the directory returns an error and
\* leaves IsLoaded false, every other call leaves IsLoaded true.
C32_ReturnsNotLoading ==
  [][\A l \in Loaders :
       LoadReturns(l) =>
         /\ ~loadNode'.IsLoading
         /\ loadNode'.IsLoaded = (loadPc'[l] # "failed")]_vars

\* Worker w is blocked in scanDirectory's error send and nothing can release
\* it: the error channel is full and no listenForErrors command is waiting,
\* no update is left whose handling would arm one, no path is left that
\* could lead to an update, the scan is not cancelled, and the monitor
\* cannot declare completion because w's job is active.
BlockedForever(w) ==
  /\ ~panicked
  /\ wPc[w] = "reportError"
  /\ Len(errorChan) >= ErrorChanCap
  /\ ~errorClosed
  /\ ~cancelled
  /\ stopPc = "idle"
  /\ errListeners = 0
  /\ updateChan = << >>
  /\ workInput = << >>
  /\ queue = << >>
  /\ workQueue = << >>
  /\ activeJobs > 0
  /\ monPc # "send"
  /\ \A v \in Workers : wPc[v] \in { "idle", "reportError" }

\* Once a worker is blocked in this way it stays so: only the monitor moves.
BlockedStays ==
  [][\A w \in Workers : BlockedForever(w) => BlockedForever(w)']_vars

\* C33: a worker reporting a read error never blocks forever: with the
\* program's own consumer (one listenForErrors command at the start and one
\* more per update handled) every error send completes, whatever the number
\* of unreadable directories, so no worker is ever left in an error send
\* that nothing can release.
C33_ErrorSendCompletes == \A w \in Workers : ~BlockedForever(w)

RECURSIVE PathsNest(_)
\* Every subdirectory at every depth below node lies directly under its
\* parent: its path is the parent's path joined with one name.
PathsNest(node) ==
  \A i \in 1..Len(node.Subdirs) :
    /\ node.Subdirs[i].Path = Join(node.Path, Base(node.Subdirs[i].Path))
    /\ Dir(node.Subdirs[i].Path) = node.Path
    /\ PathsNest(node.Subdirs[i])

\* C34: after any sequence of update integrations, removals and renames,
\* every subdirectory node's path is its parent's path joined with exactly
\* one name segment, so the descendants of a renamed directory are found
\* under the new path.
C34_PathsNest == PathsNest(rootDir)

RECURSIVE CountsMatch(_)
\* The cached cardinalities of every loaded node at and below node are the
\* lengths of its slices.
CountsMatch(node) ==
  /\ node.IsLoaded =>
       /\ node.FileCount = Len(node.Files)
       /\ node.SubdirCount = Len(node.Subdirs)
  /\ \A i \in 1..Len(node.Subdirs) : CountsMatch(node.Subdirs[i])

\* C35: for every loaded node of the live tree, after any sequence of update
\* integrations and removals, FileCount is the number of entries in Files and
\* SubdirCount the number of entries in Subdirs.
C35_CountsMatch == CountsMatch(rootDir)

\* This step starts a performBulkDeletion command.
DeleteIssued == Len(delPending') > Len(delPending)

\* A deletion is started only by the key d pressed in the key switch while
\* deletion mode is on and something is marked, and on the marked paths.
IssuedOnConfirm ==
  DeleteIssued =>
    /\ lastOp'.kind = "key" /\ lastOp'.path = << "d" >>
    /\ ~searchMode /\ ~renameMode
    /\ deletionMode
    /\ markedForDeletion # {}
    /\ delPending' = Append(delPending, markedForDeletion)

\* This step handles the key esc.
EscHandled ==
  msgCount' = msgCount + 1 /\ lastOp'.kind = "key" /\ lastOp'.path = << "esc" >>

\* Whatever the mode, esc leaves deletion mode and drops the marks.
EscClears == EscHandled => (~deletionMode' /\ markedForDeletion' = {})

\* An esc that reaches the key switch leaves deletion mode and drops the
\* marks; the esc that search mode or rename mode takes leaves both alone.
EscClearsInSwitch ==
  EscHandled =>
    IF searchMode \/ renameMode
    THEN UNCHANGED << deletionMode, markedForDeletion, delPending >>
    ELSE ~deletionMode' /\ markedForDeletion' = {} /\ UNCHANGED delPending

\* C36: filesystem deletion is issued only as a confirmed second step:
\* performBulkDeletion runs only when d is pressed while deletionMode is
\* already true and markedForDeletion is non-empty, it deletes only the
\* marked paths, and an esc pressed between the two d presses clears the
\* marks so that nothing is deleted.
C36_DeleteConfirmed == [][IssuedOnConfirm /\ EscClears]_vars

\* C36, amended: the same, for an esc that is pressed while neither search
\* mode nor rename mode is on; the esc those modes take leaves the marks in
\* place.
C36_EscInKeySwitch == [][IssuedOnConfirm /\ EscClearsInSwitch]_vars

\* A confirmed deletion has taken a marked item out of the tree.
C36_Witness ==
  /\ lastOp.kind = "delete"
  /\ rootDir # lastOp.before
  /\ delPending = << >>
  /\ ~deletionMode

\* C37: after any sequence of key presses, search-filter changes and tree
\* mutations (bulk deletion, streamed updates) the cursor is never negative
\* and, whenever at least one item is visible, is below the number of
\* visible items.
C37_CursorInRange ==
  /\ cursor >= 0
  /\ countVisibleItems > 0 => cursor < countVisibleItems

\* C38: for a static tree the Size ScanDirectoryLazy returns for the root is
\* the Size the sequential ScanDirectoryFull returns: the sizes of all
\* readable files under every readable directory, an unreadable
\* subdirectory adding 0, however the goroutines interleave; both fail on an
\* unreadable root.
C38_LazyEqualsFull ==
  \A d \in FsDirs :
    /\ lzState[d] = "done" =>
         (~ScanDirectoryFull(d).err /\ lzSize[d] = ScanDirectoryFull(d).Size)
    /\ lzState[d] = "failed" => ScanDirectoryFull(d).err

\* ScanDirectoryLazy has returned for the root of the wide tree, which has an
\* unreadable subdirectory and a directory two levels down.
C38_Witness ==
  /\ fsCount = WideDirs
  /\ fsUnreadable # {}
  /\ lzState[1] = "done"
  /\ lzState[WideDirs] = "done"
  /\ \E d \in FsDirs : lzState[d] = "failed"
  /\ lzSize[1] > SumSizes(FilesOf(1))

\* How often the path of directory d stands in the sequence of paths s.
Occurrences(s, d) == Cardinality({ i \in 1..Len(s) : DirAt(s[i]) = d })

\* Every path put on workInput is on workInput, in the manager's queue, or
\* was forwarded on workQueue, once for each time it was put.
NothingLostOrDoubled ==
  \A d \in Dirs :
    enqCount[d] = fwdCount[d] + Occurrences(queue, d) + Occurrences(workInput, d)

\* The step is a receive of the manager: the head of workInput goes to the
\* tail of its queue.
ReceivesInOrder ==
  /\ workInput # << >>
  /\ workInput' = Tail(workInput)
  /\ queue' = Append(queue, Head(workInput))
  /\ workQueue' = workQueue
  /\ fwdCount' = fwdCount

\* The step is a send of the manager: the head of its queue goes to the tail
\* of workQueue.
ForwardsInOrder ==
  /\ queue # << >>
  /\ queue' = Tail(queue)
  /\ workQueue' = Append(workQueue, Head(queue))
  /\ workInput' = workInput
  /\ fwdCount' = Bump(fwdCount, DirAt(Head(queue)))

\* The step takes a path from workInput, changes the manager's queue or
\* forwards a path.
ManagerMoves ==
  \/ queue' # queue
  \/ fwdCount' # fwdCount
  \/ Len(workInput') < Len(workInput)

\* C39: without cancellation the manager neither loses nor duplicates work
\* and forwards in the order it received.  Every step that takes a path from
\* workInput appends that path to the tail of the manager's queue, every step
\* that forwards moves the head of that queue to the tail of workQueue, and
\* nothing else changes the queue; so the paths forwarded followed by the
\* queue are at all times the paths received, in order, and each path put on
\* workInput is accounted for exactly once.
C39_ManagerIsFifo ==
  /\ []NothingLostOrDoubled
  /\ [][ManagerMoves => (ReceivesInOrder \/ ForwardsInOrder)]_vars

\* C39 witness: the manager holds two paths it received one after the other
\* after it has forwarded a path, and more paths wait on workInput.
C39_Witness ==
  /\ Len(queue) >= 2
  /\ workInput # << >>
  /\ \E d \in Dirs : fwdCount[d] > 0 /\ d # 1
  /\ ~cancelled

\* The workers that have called incrementActiveJobs for the path they hold
\* and have not yet called decrementActiveJobs: they are in scanDirectory,
\* at its error report, or have returned from it to the decrement.
ActiveWorkers == { w \in Workers : wPc[w] \in { "scan", "reportError", "decrement" } }

\* C40: in every reachable state the active-job counter is the number of
\* workers between incrementActiveJobs and decrementActiveJobs, and so lies
\* between 0 and the number of workers.
C40_JobsCountWorkers ==
  /\ activeJobs = Cardinality(ActiveWorkers)
  /\ 0 <= activeJobs
  /\ activeJobs <= NumWorkers

\* C40 witness: every worker is active, one at the error report of its
\* directory and another back from its scan, after the counter has gone
\* down for a directory that no active worker holds any more.
C40_Witness ==
  /\ activeJobs = NumWorkers
  /\ \E w \in Workers : wPc[w] = "reportError"
  /\ \E w \in Workers : wPc[w] = "decrement"
  /\ \E d \in Dirs : recvCount[d] > 0 /\ \A w \in ActiveWorkers : DirAt(wPath[w]) # d

====
